---- MODULE Spec2Model ----
(***************************************************************************)
(* Aurora OS kernel: the preemptive round-robin scheduler                  *)
(* (kernel/src/process.rs), the timer entry stub that saves and restores   *)
(* the register context (kernel/src/interrupts.rs), the task-state         *)
(* segment's interrupt stack table (kernel/src/gdt.rs) and the paging      *)
(* helpers used to load an ELF image (kernel/src/memory.rs).               *)
(*                                                                         *)
(* Kernel addresses (stacks, heap) are byte addresses.  User virtual       *)
(* addresses reach 0x80000000, so a VirtAddr of the loader is kept as a    *)
(* pair (4 KiB page number, offset in the page), which is exact to the     *)
(* byte.                                                                   *)
(***************************************************************************)
EXTENDS Integers, Sequences, FiniteSets, TLC

(***************************************************************************)
(* Bounds of the model.                                                    *)
(***************************************************************************)
\* threads that may be created in one behaviour
MaxThreads == 3
\* threads of the behaviours that follow the register contents
MaxStubThreads == 2
\* distinct register patterns running code may leave in the CPU
MaxRun == 1
\* distinct contents uninitialised heap memory may hold
MaxFill == 1
\* calls of new_user_thread in one behaviour
MaxLoads == 2
\* loadable segments of an image
MaxSegments == 1
\* 4 KiB frames of the second usable region of the memory map
MaxFrames == 10
\* keyboard interrupts of a behaviour that fills the scancode queue
MaxKeys == 102
\* keyboard interrupts before the scancode queue exists
MaxBootKeys == 2
\* keyboards
MaxStreams == 2
\* bytes the keyboard task takes
MaxPolls == 1
\* traps in a row
MaxTraps == 1
\* activations of the timer stub at one time
MaxNesting == 2
\* threads of the behaviours that follow the timer stub instruction by instruction
MaxStepThreads == 2
\* keyboard interrupts of those behaviours
MaxStepKeys == 1
\* threads of the behaviours in which the timer keeps ticking
MaxFairThreads == 3
\* keyboard interrupts of the behaviours that follow poll_next step by step
MaxWakerKeys == 3
\* calls of allocate_pages_mapper in one behaviour
MaxMapCalls == 2
\* regions of a memory map
MaxRegions == 2
\* 4 KiB pages the regions of a memory map lie in
MaxMapPages == 4
\* calls of allocate_frame on one allocator
MaxCalls == 5

(***************************************************************************)
(* Program constants.                                                      *)
(***************************************************************************)
\* process.rs:84-86
KERNEL_STACK_SIZE == 4096 * 2
USER_STACK_SIZE == 4096 * 5
INTERRUPT_CONTEXT_SIZE == 40 + 120

\* gdt.rs:8-12
DOUBLE_FAULT_IST_INDEX == 0
PAGE_FAULT_IST_INDEX == 0
GENERAL_PROTECTION_FAULT_IST_INDEX == 0
TIMER_INTERRUPT_INDEX == 1
KEYBOARD_INTERRUPT_INDEX == 0

\* gdt.rs:18  (the static fault stack)
STACK_SIZE == 4096 * 5

\* process.rs:170, :207  "Interrupts enabled"
RFLAGS_IF == 512

\* names the value of x in F: x is evaluated once, where a LET definition
\* is evaluated again at each of its uses
Bind(x, F(_)) == CHOOSE y \in {F(v) : v \in {x}} : TRUE

\* Option
None == <<>>
Some(x) == <<x>>

\* Result<usize, &'static str>
Ok(v) == [ok |-> TRUE, value |-> v, err |-> ""]
Err(e) == [ok |-> FALSE, value |-> 0, err |-> e]

(***************************************************************************)
(* Segment selectors: gdt.rs:44-50 appends kernel code, kernel data, the   *)
(* task-state segment (a 16-byte system descriptor: two slots), user code, *)
(* user data, after the null descriptor.  A selector is index * 8 + RPL.   *)
(***************************************************************************)
GDT == <<"kernel_code", "kernel_data", "tss", "tss_high", "user_code", "user_data">>

GdtIndex(name) == CHOOSE i \in 1..Len(GDT) : GDT[i] = name

SegmentSelector(name, rpl) == GdtIndex(name) * 8 + rpl

get_kernel_segments ==
    <<SegmentSelector("kernel_code", 0), SegmentSelector("kernel_data", 0)>>

get_user_segments ==
    <<SegmentSelector("user_code", 3), SegmentSelector("user_data", 3)>>

\* requested privilege level of a selector
Rpl(sel) == sel % 8

(***************************************************************************)
(* The Saved Register Context: process.rs:13-41, lowest address first.     *)
(***************************************************************************)
\* variant: cs declared before rip
ContextFieldsCsFirst ==
    << "r15", "r14", "r13",
       "r12", "r11", "r10", "r9",
       "r8", "rbp", "rsi", "rdi",
       "rdx", "rcx", "rbx", "rax",
       "cs", "rip", "rflags", "rsp", "ss" >>

ContextFields ==
    << "r15", "r14", "r13",
       "r12", "r11", "r10", "r9",
       "r8", "rbp", "rsi", "rdi",
       "rdx", "rcx", "rbx", "rax",
       "rip", "cs", "rflags", "rsp", "ss" >>

Regs == {ContextFields[i] : i \in 1..Len(ContextFields)}

\* byte offset of a field in the packed record (every field is a usize)
FieldOffset(f) == 8 * ((CHOOSE i \in 1..Len(ContextFields) : ContextFields[i] = f) - 1)

\* core::mem::size_of::<Context>()
ContextSize == 8 * Len(ContextFields)

(***************************************************************************)
(* The timer stub: interrupts.rs:290-356.                                  *)
(***************************************************************************)
\* interrupts.rs:298-315
PushOrder ==
    << "rax", "rbx", "rcx", "rdx",
       "rdi", "rsi", "rbp", "r8",
       "r9", "r10", "r11", "r12",
       "r13", "r14", "r15" >>

\* variant: rbx and rax popped in the order they were pushed
PopOrderRaxFirst ==
    << "r15", "r14", "r13",
       "r12", "r11", "r10", "r9",
       "r8", "rbp", "rsi", "rdi",
       "rdx", "rcx", "rax", "rbx" >>

\* interrupts.rs:328-345
PopOrder ==
    << "r15", "r14", "r13",
       "r12", "r11", "r10", "r9",
       "r8", "rbp", "rsi", "rdi",
       "rdx", "rcx", "rbx", "rax" >>

\* what the CPU pushes on interrupt entry in 64-bit mode (process.rs:33-39)
CpuPushOrder == << "ss", "rsp", "rflags", "cs", "rip" >>

\* what iretq pops (interrupts.rs:349)
IretqPopOrder == << "rip", "cs", "rflags", "rsp", "ss" >>

GeneralRegs == {PushOrder[i] : i \in 1..Len(PushOrder)}

\* one push: the stack pointer moves down a word, then the word is stored
RECURSIVE PushAll(_, _, _, _)
PushAll(m, sp, cpu, order) ==
    IF order = <<>> THEN [mem |-> m, sp |-> sp]
    ELSE PushAll(((sp - 8) :> cpu[Head(order)]) @@ m, sp - 8, cpu, Tail(order))

\* one pop: the word at the stack pointer is loaded, then the pointer moves up
RECURSIVE PopAll(_, _, _, _)
PopAll(m, sp, cpu, order) ==
    IF order = <<>> THEN [cpu |-> cpu, sp |-> sp]
    ELSE PopAll(m, sp + 8, [cpu EXCEPT ![Head(order)] = m[sp]], Tail(order))

\* the CPU aligns the new stack pointer to 16 bytes before pushing its frame
AlignDown16(a) == a - (a % 16)


(***************************************************************************)
(* Addresses the model gives to what the linker and the heap place.        *)
(* Only their differences matter to the scheduler.                         *)
(***************************************************************************)
\* gdt.rs:19  static mut STACK
FaultStackStart == 256 * 4096

\* gdt.rs:21-23
FaultStackEnd == FaultStackStart + STACK_SIZE

\* the stack the boot flow runs on (set up by the boot loader)
BootStackTop == 128 * 4096

\* main.rs:113  the boot flow's code
BootRip == 512 * 4096

\* main.rs:51, main.rs:63  the functions kernel threads are started on
KernelFns == {"kernel_thread_main", "test_kernel_fn2"}

FnAddr(f) == IF f = "kernel_thread_main" THEN 513 * 4096 ELSE 514 * 4096

\* the heap region Vec::with_capacity returns for the n-th thread's stacks
HeapStart == 1024 * 4096

\* process.rs:188, process.rs:191  Vec<u8> asks the allocator for alignment
\* 1, so a stack may start anywhere within a 16-byte unit: the stacks of
\* the even-numbered threads start 8 bytes off
StackSkew(n) == IF n % 2 = 0 THEN 8 ELSE 0

KernelStackPtr(n) ==
    HeapStart + (n - 1) * (KERNEL_STACK_SIZE + USER_STACK_SIZE + 16) + StackSkew(n)

UserStackPtr(n) == KernelStackPtr(n) + KERNEL_STACK_SIZE

\* what a word of never-written heap memory may hold
FillWord(g) == 171 * 4096 + g

\* what running code leaves in a general register
RunWord(k, r) == 16 * k + (CHOOSE i \in 1..Len(PushOrder) : PushOrder[i] = r)

(***************************************************************************)
(* State.                                                                  *)
(***************************************************************************)
VARIABLES
    RUNNING_QUEUE,     \* process.rs:69  VecDeque<Box<Thread>>
    CURRENT_THREAD,    \* process.rs:72  Option<Box<Thread>>
    TSS,               \* gdt.rs:15  interrupt_stack_table, by index
    queue_lock,        \* the RwLock of RUNNING_QUEUE: "free" or "write"
    mem,               \* memory words of the stacks, by byte address
    cpu,               \* the register file
    creator,           \* per execution context: its place in thread creation
    next_id,           \* threads allocated so far
    spinning,          \* the timer handler spins on a lock nobody can release
    since,             \* per thread: enqueue events since it was enqueued, -1 if not waiting
    created,           \* threads whose creation has completed
    last,              \* what the last run of the timer handler saw and left
    expect,            \* per thread: the registers its saved context must restore
    origin,            \* per thread: the function or image it was created for
    mapper,            \* the page tables behind the Mapper handed to new_user_thread
    frame_allocator,   \* memory.rs:74  BootInfoFrameAllocator
    loads,             \* calls of new_user_thread so far
    load,              \* the last call of new_user_thread: its input, pre-state, result
                       \* and the results of its calls of allocate_pages_mapper
    boot,              \* main.rs:113  the statement kernel_main is at
    hw,                \* what of the machine kernel_main has set up so far
    lapic,             \* interrupts.rs:101  LAPIC, and the vectors in service
    SCANCODE_QUEUE,    \* keyboard.rs:10  OnceCell<ArrayQueue<u8>>
    ACTIVE_TTY,        \* tty.rs:10  Mutex<Option<TTY>>
    kbd,               \* the keyboard: the bytes it sent, and what became of them
    event,             \* the last interrupt or exception handled, step by step
    stub,              \* interrupts.rs:290-356  the timer stub: the instruction each
                       \* activation is at, innermost first, and the shadow of sti
    handed             \* what allocate_frame returned, call by call

paging == << mapper, frame_allocator, loads, load >>

devices == << boot, hw, SCANCODE_QUEUE, ACTIVE_TTY, kbd >>

\* what only the instruction-level and call-level behaviours change
finer == << stub, handed >>

\* what thread creation and code between interrupts leave alone
outside == << devices, lapic, event, paging, finer >>

vars == << RUNNING_QUEUE, CURRENT_THREAD, TSS, queue_lock, mem, cpu, creator,
           next_id, spinning, since, created, last, expect, origin, paging,
           devices, lapic, event, finer >>

ThreadIds == 1..MaxThreads

\* execution contexts: the boot flow (0) and the threads
Contexts == 0..MaxThreads

\* process.rs:76-82
Thread(n) ==
    [ id |-> n,
      kernel_stack |-> KernelStackPtr(n),
      user_stack |-> UserStackPtr(n),
      kernel_stack_end |-> KernelStackPtr(n) + KERNEL_STACK_SIZE,
      user_stack_end |-> UserStackPtr(n) + USER_STACK_SIZE,
      context |-> KernelStackPtr(n) + KERNEL_STACK_SIZE - INTERRUPT_CONTEXT_SIZE ]

\* who is on the CPU: the thread in the Current-Thread slot, else the boot flow
Running == IF CURRENT_THREAD = None THEN 0 ELSE CURRENT_THREAD[1].id

InterruptsEnabled == (cpu["rflags"] \div RFLAGS_IF) % 2 = 1

KernelMode == Rpl(cpu["cs"]) = 0

Idle == [pc |-> "idle", thread |-> None, was_enabled |-> FALSE]

NoCall ==
    [ called |-> FALSE, context_addr |-> 0, ret |-> 0, queue_len |-> 0,
      had_current |-> FALSE, since |-> [n \in ThreadIds |-> -1],
      expect |-> << >>, stamped |-> [n \in ThreadIds |-> 0] ]

\* the timer stub is not running
NoStub == [at |-> << >>, shadow |-> FALSE]

NoLoad ==
    [ called |-> FALSE, bin |-> <<>>, mapper |-> <<>>, frame_allocator |-> <<>>,
      next_id |-> 0, created |-> {}, result |-> Err(""),
      segment_err |-> "", stack_err |-> "", panicked |-> "" ]

(***************************************************************************)
(* gdt.rs:38-40                                                            *)
(***************************************************************************)
\* variant: the stack goes to the slot of the fault handlers
set_fault_stack(tss, index, stack_end) ==
    [tss EXCEPT ![DOUBLE_FAULT_IST_INDEX] = stack_end]

set_interrupt_stack_table(tss, index, stack_end) ==
    [tss EXCEPT ![index] = stack_end]

(***************************************************************************)
(* The scheduler: process.rs:43-66.                                        *)
(***************************************************************************)
\* variant: the new element goes to the front
push_front(q, t) == <<t>> \o q

\* VecDeque::push_back (process.rs:51, :177, :214)
push_back(q, t) == Append(q, t)

\* variant: the element is taken from the back
pop_back(q) ==
    IF q = <<>> THEN [front |-> None, rest |-> <<>>]
    ELSE [front |-> Some(q[Len(q)]), rest |-> SubSeq(q, 1, Len(q) - 1)]

\* VecDeque::pop_front (process.rs:54)
pop_front(q) ==
    IF q = <<>> THEN [front |-> None, rest |-> <<>>]
    ELSE [front |-> Some(Head(q)), rest |-> Tail(q)]

\* variant: the preempted thread is taken from the slot and not queued
drop_current(context_addr, queue, current) == queue

\* Option::take and the re-queueing of the preempted thread (process.rs:47-52)
requeue_current(context_addr, queue, current) ==
    IF current # None
    THEN push_back(queue, [current[1] EXCEPT !.context = context_addr])
    ELSE queue

\* variant: with nothing to run, the context passed in is returned
schedule_next_same_context(context_addr, queue, current, tss) ==
    LET q1 == requeue_current(context_addr, queue, current)
        popped == pop_front(q1)
    IN  [ queue |-> popped.rest,
          current |-> popped.front,
          tss |-> IF popped.front # None
                  THEN set_interrupt_stack_table(tss, TIMER_INTERRUPT_INDEX,
                                                 popped.front[1].kernel_stack_end)
                  ELSE tss,
          ret |-> IF popped.front # None THEN popped.front[1].context
                  ELSE context_addr ]

\* variant: the address passed in is returned for the thread selected
schedule_next_returning_argument(context_addr, queue, current, tss) ==
    LET q1 == requeue_current(context_addr, queue, current)
        popped == pop_front(q1)
    IN  [ queue |-> popped.rest,
          current |-> popped.front,
          tss |-> IF popped.front # None
                  THEN set_interrupt_stack_table(tss, TIMER_INTERRUPT_INDEX,
                                                 popped.front[1].kernel_stack_end)
                  ELSE tss,
          ret |-> IF popped.front # None THEN context_addr ELSE 0 ]

\* the whole function, as the values it leaves and returns
schedule_next(context_addr, queue, current, tss) ==
    LET q1 == requeue_current(context_addr, queue, current)
        popped == pop_front(q1)
    IN  [ queue |-> popped.rest,
          current |-> popped.front,
          tss |-> IF popped.front # None
                  THEN set_interrupt_stack_table(tss, TIMER_INTERRUPT_INDEX,
                                                 popped.front[1].kernel_stack_end)
                  ELSE tss,
          ret |-> IF popped.front # None THEN popped.front[1].context ELSE 0 ]

\* ghost: per thread the address passed to schedule_next when it was last
\* preempted, 0 if it never was; this call preempts the current thread
Stamped(context_addr) ==
    IF CURRENT_THREAD # None
    THEN [last.stamped EXCEPT ![CURRENT_THREAD[1].id] = context_addr]
    ELSE last.stamped

\* ghost: an enqueue event of thread n
Enqueued(s, n) ==
    [i \in ThreadIds |-> IF i = n THEN 0 ELSE IF s[i] >= 0 THEN s[i] + 1 ELSE s[i]]

(***************************************************************************)
(* The local interrupt controller.  The vectors of the devices            *)
(* (interrupts.rs:184-190) are in one priority class: while one of them is *)
(* in service no other is delivered.                                       *)
(***************************************************************************)
\* interrupts.rs:16
PIC_1_OFFSET == 32

\* variant: Keyboard declared last
InterruptIndexKeyboardLast == << "Timer", "Error", "Spurious", "Keyboard" >>

\* interrupts.rs:184-189  the variants of the enum, as declared
InterruptIndexVariants == << "Timer", "Keyboard", "Error", "Spurious" >>

\* #[repr(u8)]: the first variant is PIC_1_OFFSET, each next one more
\* (interrupts.rs:185-188, as_u8 at :192-194)
InterruptIndex(variant) ==
    PIC_1_OFFSET
    + (CHOOSE i \in DOMAIN InterruptIndexVariants : InterruptIndexVariants[i] = variant)
    - 1

\* interrupts.rs:220-237: the handlers the interrupt table binds, by vector
IDT ==
    [v \in {InterruptIndex(InterruptIndexVariants[i]) : i \in DOMAIN InterruptIndexVariants} |->
        CASE v = InterruptIndex("Timer") -> "timer_interrupt_handler"
          [] v = InterruptIndex("Spurious") -> "spurious_interrupt_handler"
          [] v = InterruptIndex("Error") -> "error_interrupt_handler"
          [] v = InterruptIndex("Keyboard") -> "keyboard_interrupt_handler"]

\* interrupts.rs:109-112: the vectors the local controller raises
LocalVectors ==
    [ timer |-> InterruptIndex("Timer"),
      error |-> InterruptIndex("Error"),
      spurious |-> InterruptIndex("Spurious") ]

\* interrupts.rs:128-138: the redirection table of the I/O controller.
\* IoApic::init gives line i the vector irq_offset + i, masked; line 1 is
\* then given the keyboard's entry and enabled
RedirectionTable(irq_offset) ==
    [irq \in 0..23 |->
        IF irq = 1
        THEN [vector |-> InterruptIndex("Keyboard"), masked |-> FALSE]
        ELSE [vector |-> irq_offset + irq, masked |-> TRUE]]

\* interrupts.rs:160
IrqOffset == 32

\* the line the keyboard controller raises
KeyboardIrq == 1

\* the handler the CPU enters for a device: the vector its controller sends,
\* looked up in the interrupt table
HandlerOf(device) ==
    LET vector == IF device = "keyboard"
                  THEN RedirectionTable(IrqOffset)[KeyboardIrq].vector
                  ELSE LocalVectors[device]
    IN  IF vector \in DOMAIN IDT THEN IDT[vector] ELSE ""

\* interrupts.rs:185-190  InterruptIndex
DeviceVectors == {"timer", "keyboard", "error", "spurious"}

\* no interrupt or exception handled so far; at and resumed are the
\* instruction an exception was raised at and the one its handler returned to
NoEvent == [vector |-> "", log |-> << >>, at |-> 0, resumed |-> None]

\* the controller marks the vector in service when the CPU takes it
Deliver(l, vector) == [l EXCEPT !.isr = << vector >> \o @]

\* a device interrupt can be taken: the controller is enabled, delivers,
\* and nothing is in service
Deliverable ==
    /\ InterruptsEnabled
    /\ "lapic" \in hw
    /\ lapic.isr = << >>

\* interrupts.rs:173-180: the controller retires the vector in service
send_eoi(l, log) ==
    IF l.LAPIC
    THEN [lapic |-> [l EXCEPT !.isr = Tail(@)], log |-> Append(log, "eoi")]
    ELSE [lapic |-> l, log |-> log]

\* variant: the end of the interrupt is signalled before the scheduler runs
timer_handler_eoi_first(context_addr, queue, current, tss, l) ==
    LET eoi == send_eoi(l, << >>)
        next_stack == schedule_next(context_addr, queue, current, tss)
    IN  [sched |-> next_stack, lapic |-> eoi.lapic,
         log |-> Append(eoi.log, "schedule_next")]

\* interrupts.rs:283-288
timer_handler(context_addr, queue, current, tss, l) ==
    LET next_stack == schedule_next(context_addr, queue, current, tss)
        eoi == send_eoi(l, << "schedule_next" >>)
    IN  [sched |-> next_stack, lapic |-> eoi.lapic, log |-> eoi.log]

(***************************************************************************)
(* The timer interrupt: interrupts.rs:283-356.  The vector is an interrupt *)
(* gate on interrupt-stack-table slot TIMER_INTERRUPT_INDEX                *)
(* (interrupts.rs:220-222), so the whole handler runs with interrupts      *)
(* disabled and is one step.                                               *)
(***************************************************************************)
\* the stack switch and the frame the CPU pushes
InterruptEntry(m, c, tss) ==
    PushAll(m, AlignDown16(tss[TIMER_INTERRUPT_INDEX]), c, CpuPushOrder)

\* variant: the returned address is ignored
SwitchStackNever(sp, rax) == sp

\* interrupts.rs:322-325
SwitchStack(sp, rax) == IF rax # 0 THEN rax ELSE sp

\* interrupts.rs:328-349: the pops, sti, iretq
StubExit(m, sp, c) ==
    LET popped == PopAll(m, sp, c, PopOrder)
    IN  PopAll(m, popped.sp, popped.cpu, IretqPopOrder).cpu

\* interrupts.rs:296-320: the CPU's frame, then the stub's pushes; the
\* stack pointer left is the argument of timer_handler
StubEntry(m, c, tss) ==
    LET entry == InterruptEntry(m, c, tss)
    IN  PushAll(entry.mem, entry.sp, c, PushOrder)

timer_interrupt_handler ==
    /\ ~spinning
    /\ Deliverable
    /\ HandlerOf("timer") = "timer_interrupt_handler"
    /\ IF queue_lock # "free"
       THEN \* RUNNING_QUEUE.write() spins; the holder cannot run
            /\ spinning' = TRUE
            /\ lapic' = Deliver(lapic, "timer")
            /\ event' = [NoEvent EXCEPT !.vector = "timer",
                                        !.log = << "entry", "spin" >>]
            /\ UNCHANGED << devices, paging, finer, RUNNING_QUEUE, CURRENT_THREAD, TSS,
                            queue_lock, mem, cpu, creator, next_id, since, created,
                            last, expect, origin >>
       ELSE \E saved \in {StubEntry(mem, cpu, TSS)} :
            \E t \in {timer_handler(saved.sp, RUNNING_QUEUE, CURRENT_THREAD, TSS,
                                    Deliver(lapic, "timer"))} :
            LET context_addr == saved.sp
                r == t.sched
                s1 == IF CURRENT_THREAD # None
                      THEN Enqueued(since, CURRENT_THREAD[1].id) ELSE since
                e1 == IF CURRENT_THREAD # None
                      THEN [expect EXCEPT ![CURRENT_THREAD[1].id] = cpu] ELSE expect
                resumed == StubExit(saved.mem, SwitchStack(saved.sp, r.ret), cpu)
            IN  /\ RUNNING_QUEUE' = r.queue
                /\ CURRENT_THREAD' = r.current
                /\ TSS' = r.tss
                /\ mem' = saved.mem
                /\ cpu' = resumed
                /\ lapic' = t.lapic
                /\ event' = [NoEvent EXCEPT !.vector = "timer",
                                !.log = << "entry" >> \o t.log \o << "iretq" >>]
                /\ since' = IF r.current # None
                            THEN [s1 EXCEPT ![r.current[1].id] = -1] ELSE s1
                /\ expect' = e1
                /\ last' = [ called |-> TRUE, context_addr |-> context_addr,
                             ret |-> r.ret, queue_len |-> Len(RUNNING_QUEUE),
                             had_current |-> CURRENT_THREAD # None, since |-> s1,
                             expect |-> IF r.current # None
                                        THEN e1[r.current[1].id] ELSE << >>,
                             stamped |-> Stamped(context_addr) ]
                /\ UNCHANGED << devices, paging, finer, queue_lock, creator, next_id,
                                spinning, created, origin >>

(***************************************************************************)
(* The timer interrupt, instruction by instruction: interrupts.rs:290-356. *)
(* An activation starts when the CPU takes the vector and ends with iretq. *)
(***************************************************************************)
\* variant: interrupts are enabled as soon as the handler has returned
TimerStubStiEarly ==
    << "cli", "push", "call", "sti", "mov rsp, rax", "pop", "iretq" >>

\* interrupts.rs:295-349: cli, the 15 pushes, mov rdi, rsp and call, the
\* conditional mov rsp, rax, the 15 pops, sti, iretq
TimerStub ==
    << "cli", "push", "call", "mov rsp, rax", "pop", "sti", "iretq" >>

\* the instruction the innermost activation is at
Fetch == IF stub.at = << >> THEN "" ELSE TimerStub[Head(stub.at).pc]

\* the innermost activation moves to its next instruction
Advance(shadow) ==
    [at |-> << [Head(stub.at) EXCEPT !.pc = @ + 1] >> \o Tail(stub.at),
     shadow |-> shadow]

\* a maskable interrupt is taken at an instruction boundary when the
\* controller delivers and the instruction before was not sti
Interruptible == Deliverable /\ ~stub.shadow

\* interrupts.rs:220-222: an interrupt gate; the CPU clears the interrupt
\* flag after it has pushed the old flags
interrupt_gate(c, sp) ==
    [c EXCEPT !["rsp"] = sp, !["rflags"] = @ - RFLAGS_IF,
              !["cs"] = get_kernel_segments[1]]

\* the CPU takes the timer vector: the stack switch to the slot of the
\* vector, the frame, the gate
TimerEntry ==
    /\ ~spinning
    /\ Interruptible
    /\ HandlerOf("timer") = "timer_interrupt_handler"
    /\ Len(stub.at) < MaxNesting
    /\ \E entry \in {InterruptEntry(mem, cpu, TSS)} :
          /\ mem' = entry.mem
          /\ cpu' = interrupt_gate(cpu, entry.sp)
    /\ lapic' = Deliver(lapic, "timer")
    /\ event' = [NoEvent EXCEPT !.vector = "timer", !.log = << "entry" >>]
    /\ stub' = [at |-> << [pc |-> 1, interrupted |-> cpu] >> \o stub.at,
                shadow |-> FALSE]
    /\ UNCHANGED << devices, paging, handed, RUNNING_QUEUE, CURRENT_THREAD, TSS,
                    queue_lock, creator, next_id, spinning, since, created, last,
                    expect, origin >>

\* interrupts.rs:296
Cli ==
    /\ ~spinning
    /\ Fetch = "cli"
    /\ cpu' = [cpu EXCEPT !["rflags"] = IF InterruptsEnabled THEN @ - RFLAGS_IF ELSE @]
    /\ stub' = Advance(FALSE)
    /\ UNCHANGED << devices, paging, handed, lapic, event, RUNNING_QUEUE,
                    CURRENT_THREAD, TSS, queue_lock, mem, creator, next_id, spinning,
                    since, created, last, expect, origin >>

\* interrupts.rs:298-315
PushRegisters ==
    /\ ~spinning
    /\ Fetch = "push"
    /\ \E saved \in {PushAll(mem, cpu["rsp"], cpu, PushOrder)} :
          /\ mem' = saved.mem
          /\ cpu' = [cpu EXCEPT !["rsp"] = saved.sp]
    /\ stub' = Advance(FALSE)
    /\ UNCHANGED << devices, paging, handed, lapic, event, RUNNING_QUEUE,
                    CURRENT_THREAD, TSS, queue_lock, creator, next_id, spinning, since,
                    created, last, expect, origin >>

\* interrupts.rs:317-320: mov rdi, rsp; call timer_handler.  The handler
\* leaves its result in rax
CallHandler ==
    /\ ~spinning
    /\ Fetch = "call"
    /\ IF queue_lock # "free"
       THEN /\ spinning' = TRUE
            /\ event' = [event EXCEPT !.log = Append(@, "spin")]
            /\ UNCHANGED << RUNNING_QUEUE, CURRENT_THREAD, TSS, cpu, lapic, since,
                            expect, last, stub >>
       ELSE \E t \in {timer_handler(cpu["rsp"], RUNNING_QUEUE, CURRENT_THREAD, TSS,
                                    lapic)} :
            LET context_addr == cpu["rsp"]
                r == t.sched
                interrupted == Head(stub.at).interrupted
                s1 == IF CURRENT_THREAD # None
                      THEN Enqueued(since, CURRENT_THREAD[1].id) ELSE since
                e1 == IF CURRENT_THREAD # None
                      THEN [expect EXCEPT ![CURRENT_THREAD[1].id] = interrupted]
                      ELSE expect
            IN  /\ RUNNING_QUEUE' = r.queue
                /\ CURRENT_THREAD' = r.current
                /\ TSS' = r.tss
                /\ cpu' = [cpu EXCEPT !["rdi"] = context_addr, !["rax"] = r.ret]
                /\ lapic' = t.lapic
                /\ event' = [event EXCEPT !.log = @ \o t.log]
                /\ since' = IF r.current # None
                            THEN [s1 EXCEPT ![r.current[1].id] = -1] ELSE s1
                /\ expect' = e1
                /\ last' = [ called |-> TRUE, context_addr |-> context_addr,
                             ret |-> r.ret, queue_len |-> Len(RUNNING_QUEUE),
                             had_current |-> CURRENT_THREAD # None, since |-> s1,
                             expect |-> IF r.current # None
                                        THEN e1[r.current[1].id] ELSE << >>,
                             stamped |-> Stamped(context_addr) ]
                /\ stub' = Advance(FALSE)
                /\ UNCHANGED spinning
    /\ UNCHANGED << devices, paging, handed, queue_lock, mem, creator, next_id,
                    created, origin >>

\* interrupts.rs:322-325
MovRspRax ==
    /\ ~spinning
    /\ Fetch = "mov rsp, rax"
    /\ cpu' = [cpu EXCEPT !["rsp"] = SwitchStack(cpu["rsp"], cpu["rax"])]
    /\ stub' = Advance(FALSE)
    /\ UNCHANGED << devices, paging, handed, lapic, event, RUNNING_QUEUE,
                    CURRENT_THREAD, TSS, queue_lock, mem, creator, next_id, spinning,
                    since, created, last, expect, origin >>

\* interrupts.rs:328-345
PopRegisters ==
    /\ ~spinning
    /\ Fetch = "pop"
    /\ \E popped \in {PopAll(mem, cpu["rsp"], cpu, PopOrder)} :
          cpu' = [popped.cpu EXCEPT !["rsp"] = popped.sp]
    /\ stub' = Advance(FALSE)
    /\ UNCHANGED << devices, paging, handed, lapic, event, RUNNING_QUEUE,
                    CURRENT_THREAD, TSS, queue_lock, mem, creator, next_id, spinning,
                    since, created, last, expect, origin >>

\* interrupts.rs:347: the flag is set; the interrupt is held off until the
\* next instruction has run
Sti ==
    /\ ~spinning
    /\ Fetch = "sti"
    /\ cpu' = [cpu EXCEPT !["rflags"] = IF InterruptsEnabled THEN @ ELSE @ + RFLAGS_IF]
    /\ stub' = Advance(TRUE)
    /\ UNCHANGED << devices, paging, handed, lapic, event, RUNNING_QUEUE,
                    CURRENT_THREAD, TSS, queue_lock, mem, creator, next_id, spinning,
                    since, created, last, expect, origin >>

\* interrupts.rs:349: the frame is popped, the activation ends
Iretq ==
    /\ ~spinning
    /\ Fetch = "iretq"
    /\ cpu' = PopAll(mem, cpu["rsp"], cpu, IretqPopOrder).cpu
    /\ event' = [event EXCEPT !.log = Append(@, "iretq")]
    /\ stub' = [at |-> Tail(stub.at), shadow |-> FALSE]
    /\ UNCHANGED << devices, paging, handed, lapic, RUNNING_QUEUE, CURRENT_THREAD,
                    TSS, queue_lock, mem, creator, next_id, spinning, since, created,
                    last, expect, origin >>

(***************************************************************************)
(* Code running between interrupts changes the registers.                  *)
(***************************************************************************)
Run(k) ==
    /\ ~spinning
    /\ creator[Running].pc = "idle"
    /\ cpu' = [r \in Regs |->
                 IF r \in GeneralRegs THEN RunWord(k, r)
                 ELSE IF r = "rip" THEN cpu["rip"] - (cpu["rip"] % 16) + k
                 ELSE cpu[r]]
    /\ cpu' # cpu
    /\ UNCHANGED << outside, RUNNING_QUEUE, CURRENT_THREAD, TSS, queue_lock, mem, creator,
                    next_id, spinning, since, created, last, expect, origin >>

(***************************************************************************)
(* Thread creation.  The thread is built with interrupts as they are; the  *)
(* push happens inside interrupts::without_interrupts.                     *)
(***************************************************************************)
\* the words of a fresh kernel stack that creation does not write
FreshStack(m, t, g) ==
    [a \in {t.context + FieldOffset(f) : f \in Regs} |-> FillWord(g)] @@ m

\* a store through the &mut Context (process.rs:159-174, :204-211)
WriteField(m, context, f, v) == ((context + FieldOffset(f)) :> v) @@ m

\* ghost: the five values thread creation stores in a new context
Written(rip, cs, rflags, rsp, ss) ==
    [f \in {"rip", "cs", "rflags", "rsp", "ss"} |->
        CASE f = "rip" -> rip [] f = "cs" -> cs [] f = "rflags" -> rflags
          [] f = "rsp" -> rsp [] OTHER -> ss]

\* variant: the new thread is started on its kernel stack
kernel_context_on_kernel_stack(m, new_thread, function) ==
    LET context == new_thread.context
        m1 == WriteField(m, context, "rip", FnAddr(function))
        m2 == WriteField(m1, context, "rsp", new_thread.kernel_stack_end)
        m3 == WriteField(m2, context, "rflags", RFLAGS_IF)
        m4 == WriteField(m3, context, "cs", get_kernel_segments[1])
    IN  WriteField(m4, context, "ss", get_kernel_segments[2])

\* process.rs:204-211  "Set context registers"
kernel_context(m, new_thread, function) ==
    LET context == new_thread.context
        m1 == WriteField(m, context, "rip", FnAddr(function))
        m2 == WriteField(m1, context, "rsp", new_thread.user_stack_end)
        m3 == WriteField(m2, context, "rflags", RFLAGS_IF)
        m4 == WriteField(m3, context, "cs", get_kernel_segments[1])
    IN  WriteField(m4, context, "ss", get_kernel_segments[2])

\* process.rs:186-211
new_kernel_thread_build(function, g) ==
    /\ ~spinning
    /\ KernelMode
    /\ creator[Running].pc = "idle"
    /\ next_id < MaxThreads
    /\ LET new_thread == Thread(next_id + 1)
       IN  /\ mem' = kernel_context(FreshStack(mem, new_thread, g), new_thread, function)
           /\ creator' = [creator EXCEPT ![Running] =
                            [pc |-> "built", thread |-> Some(new_thread),
                             was_enabled |-> FALSE]]
           /\ next_id' = next_id + 1
           /\ expect' = [expect EXCEPT ![new_thread.id] =
                            Written(FnAddr(function), get_kernel_segments[1], RFLAGS_IF,
                                    new_thread.user_stack_end, get_kernel_segments[2])]
           /\ origin' = [origin EXCEPT ![new_thread.id] = function]
    /\ UNCHANGED << outside, RUNNING_QUEUE, CURRENT_THREAD, TSS, queue_lock, cpu, spinning,
                    since, created, last >>

\* variant: the closure is run without cli
with_interrupts_enter(c) == c

\* x86_64::instructions::interrupts::without_interrupts, on entry:
\* remember whether interrupts were enabled, then cli
without_interrupts_enter(c) ==
    [c EXCEPT !["rflags"] = IF InterruptsEnabled THEN c["rflags"] - RFLAGS_IF
                            ELSE c["rflags"]]

\* ... on exit: sti if they were enabled
without_interrupts_exit(c, was_enabled) ==
    [c EXCEPT !["rflags"] = IF was_enabled THEN c["rflags"] + RFLAGS_IF
                            ELSE c["rflags"]]

\* process.rs:176, :213
EnterCritical ==
    /\ ~spinning
    /\ creator[Running].pc = "built"
    /\ cpu' = without_interrupts_enter(cpu)
    /\ creator' = [creator EXCEPT ![Running].pc = "cli",
                                  ![Running].was_enabled = InterruptsEnabled]
    /\ UNCHANGED << outside, RUNNING_QUEUE, CURRENT_THREAD, TSS, queue_lock, mem, next_id,
                    spinning, since, created, last, expect, origin >>

\* process.rs:177, :214  RUNNING_QUEUE.write()
LockQueue ==
    /\ ~spinning
    /\ creator[Running].pc = "cli"
    /\ queue_lock = "free"
    /\ queue_lock' = "write"
    /\ creator' = [creator EXCEPT ![Running].pc = "locked"]
    /\ UNCHANGED << outside, RUNNING_QUEUE, CURRENT_THREAD, TSS, mem, cpu, next_id,
                    spinning, since, created, last, expect, origin >>

\* process.rs:177, :214  .push_back(new_thread)
PushNewThread ==
    /\ ~spinning
    /\ creator[Running].pc = "locked"
    /\ LET new_thread == creator[Running].thread[1]
       IN  /\ RUNNING_QUEUE' = push_back(RUNNING_QUEUE, new_thread)
           /\ since' = Enqueued(since, new_thread.id)
           /\ created' = created \cup {new_thread.id}
    /\ creator' = [creator EXCEPT ![Running].pc = "pushed",
                                  ![Running].thread = None]
    /\ UNCHANGED << outside, CURRENT_THREAD, TSS, queue_lock, mem, cpu, next_id,
                    spinning, last, expect, origin >>

\* the write guard is dropped at the end of the statement
UnlockQueue ==
    /\ ~spinning
    /\ creator[Running].pc = "pushed"
    /\ queue_lock' = "free"
    /\ creator' = [creator EXCEPT ![Running].pc = "unlocked"]
    /\ UNCHANGED << outside, RUNNING_QUEUE, CURRENT_THREAD, TSS, mem, cpu, next_id,
                    spinning, since, created, last, expect, origin >>

\* process.rs:178, :215  the closure returns
LeaveCritical ==
    /\ ~spinning
    /\ creator[Running].pc = "unlocked"
    /\ cpu' = without_interrupts_exit(cpu, creator[Running].was_enabled)
    /\ creator' = [creator EXCEPT ![Running] = Idle]
    /\ UNCHANGED << outside, RUNNING_QUEUE, CURRENT_THREAD, TSS, queue_lock, mem, next_id,
                    spinning, since, created, last, expect, origin >>

(***************************************************************************)
(* Virtual addresses of the loader: (page number, offset in the page).     *)
(***************************************************************************)
\* x86_64::VirtAddr::new
VirtAddr(pg, off) == [pg |-> pg, off |-> off]

\* VirtAddr + u64 and VirtAddr - u64
AddrAdd(a, n) ==
    LET t == a.off + n
    IN  [pg |-> a.pg + (t \div 4096), off |-> t % 4096]

\* the derived ordering of VirtAddr
AddrLt(a, b) == a.pg < b.pg \/ (a.pg = b.pg /\ a.off < b.off)

AddrGe(a, b) == ~AddrLt(a, b)

\* VirtAddr::as_u64, for addresses below 2^31
AsU64(a) == a.pg * 4096 + a.off

\* process.rs:87-89: 0x5000000, 0x80000000, 0x5002000
USER_CODE_START == VirtAddr(20480, 0)
USER_CODE_END == VirtAddr(524288, 0)
USER_STACK_START == VirtAddr(20482, 0)

\* process.rs:93
ELF_MAGIC == <<127, 69, 76, 70>>

\* process.rs:121-123, :166-168
UserFlags == {"PRESENT", "WRITABLE", "USER_ACCESSIBLE"}

(***************************************************************************)
(* The frame allocator: memory.rs:74-113.                                  *)
(***************************************************************************)
\* the boot loader's memory map (main.rs:122); the frames of the first
\* usable region back the kernel heap (main.rs:124)
memory_regions ==
    << [start |-> 4096, end |-> 3 * 4096, kind |-> "Usable"],
       [start |-> 3 * 4096, end |-> 16 * 4096, kind |-> "Reserved"],
       [start |-> 16 * 4096, end |-> (16 + MaxFrames) * 4096, kind |-> "Usable"] >>

\* (start..end).step_by(4096)
StepBy4096(start, end) ==
    IF end <= start THEN <<>>
    ELSE [i \in 1..((end - start + 4095) \div 4096) |-> start + (i - 1) * 4096]

\* frames the heap took before any thread is created: the first usable region
HeapFrames == Len(StepBy4096(memory_regions[1].start, memory_regions[1].end))

\* memory.rs:92-104
RECURSIVE usable_frames(_)
usable_frames(regions) ==
    IF regions = <<>> THEN <<>>
    ELSE LET r == Head(regions)
             addrs == IF r.kind = "Usable" THEN StepBy4096(r.start, r.end) ELSE <<>>
         IN  [i \in 1..Len(addrs) |-> addrs[i] - (addrs[i] % 4096)]
             \o usable_frames(Tail(regions))

\* variant: the cursor stays where it is
allocate_frame_again(fa) ==
    LET frames == usable_frames(fa.memory_regions)
    IN  [ frame |-> IF fa.next < Len(frames) THEN Some(frames[fa.next + 1]) ELSE None,
          fa |-> fa ]

\* memory.rs:108-112
allocate_frame(fa) ==
    LET frames == usable_frames(fa.memory_regions)
    IN  [ frame |-> IF fa.next < Len(frames) THEN Some(frames[fa.next + 1]) ELSE None,
          fa |-> [fa EXCEPT !.next = fa.next + 1] ]

\* memory.rs:88-89  BootInfoFrameAllocator::init
BootInfoFrameAllocator_init(regions) == [memory_regions |-> regions, next |-> 0]

\* the regions a memory map may list: page-aligned, of either kind
Regions ==
    { [start |-> a * 4096, end |-> b * 4096, kind |-> k] :
        a \in 0..MaxMapPages, b \in 0..MaxMapPages, k \in {"Usable", "Reserved"} }

Overlap(r, q) == r.start < q.end /\ q.start < r.end

\* the memory maps: regions in any order, the usable ones disjoint
MemoryMaps ==
    { m \in UNION { [1..n -> Regions] : n \in 0..MaxRegions } :
        \A i, j \in DOMAIN m :
           /\ m[i].start <= m[i].end
           /\ (i < j /\ m[i].kind = "Usable" /\ m[j].kind = "Usable")
                 => ~Overlap(m[i], m[j]) }

\* one call of allocate_frame
AllocateFrame ==
    /\ Len(handed) < MaxCalls
    /\ \E a \in {allocate_frame(frame_allocator)} :
          /\ frame_allocator' = a.fa
          /\ handed' = Append(handed, a.frame)
    /\ UNCHANGED << devices, lapic, event, stub, mapper, loads, load, RUNNING_QUEUE,
                    CURRENT_THREAD, TSS, queue_lock, mem, cpu, creator, next_id,
                    spinning, since, created, last, expect, origin >>

(***************************************************************************)
(* Mapping: memory.rs:140-164.                                             *)
(***************************************************************************)
\* the page tables Mapper::map_to walks for a page, creating the missing
\* ones from the frame allocator: levels 3, 2, 1 below the level-4 table
RECURSIVE create_next_tables(_, _, _, _)
create_next_tables(tables, fa, page, levels) ==
    IF levels = <<>> THEN [err |-> "", tables |-> tables, fa |-> fa]
    ELSE LET key == <<Head(levels), page \div (512 ^ Head(levels))>>
         IN  IF key \in tables
             THEN create_next_tables(tables, fa, page, Tail(levels))
             ELSE Bind(allocate_frame(fa), LAMBDA a :
                    IF a.frame = None
                    THEN [err |-> "FrameAllocationFailed", tables |-> tables, fa |-> a.fa]
                    ELSE create_next_tables(tables \cup {key}, a.fa, page, Tail(levels)))

\* memory.rs:159  mapper.map_to(page, frame, flags, frame_allocator)
map_to(m, fa, page, frame, flags) ==
    Bind(create_next_tables(m.tables, fa, page, <<3, 2, 1>>), LAMBDA t :
      Bind([m EXCEPT !.tables = t.tables], LAMBDA m1 :
        IF t.err # "" THEN [err |-> t.err, mapper |-> m1, fa |-> t.fa]
        ELSE IF page \in DOMAIN m1.mapped
        THEN [err |-> "PageAlreadyMapped", mapper |-> m1, fa |-> t.fa]
        ELSE [ err |-> "",
               mapper |-> [m1 EXCEPT !.mapped =
                              (page :> [frame |-> frame, flags |-> flags]) @@ @],
               fa |-> t.fa ]))

\* memory.rs:152-162  the loop over Page::range_inclusive
RECURSIVE map_range(_, _, _, _, _)
map_range(m, fa, page, end_page, flags) ==
    IF page > end_page THEN [err |-> "", mapper |-> m, fa |-> fa]
    ELSE Bind(allocate_frame(fa), LAMBDA a :
           IF a.frame = None
           THEN [err |-> "FrameAllocationFailed", mapper |-> m, fa |-> a.fa]
           ELSE Bind(map_to(m, a.fa, page, a.frame[1], flags), LAMBDA r :
                  IF r.err # "" THEN r
                  ELSE map_range(r.mapper, r.fa, page + 1, end_page, flags)))

\* variant: the range ends at the address after the last byte
allocate_pages_mapper_to_end(m, fa, start_addr, size, flags) ==
    map_range(m, fa, start_addr.pg, AddrAdd(start_addr, size).pg, flags)

\* memory.rs:140-164
allocate_pages_mapper(m, fa, start_addr, size, flags) ==
    LET end_addr == AddrAdd(AddrAdd(start_addr, size), -1)
    IN  map_range(m, fa, start_addr.pg, end_addr.pg, flags)

(***************************************************************************)
(* The ELF loader and new_user_thread: process.rs:91-183.                  *)
(***************************************************************************)
\* variant: only the upper bound is tested
segment_past_end(start_address, end_address) ==
    AddrGe(end_address, USER_CODE_END)

\* process.rs:110-111
segment_outside_range(start_address, end_address) ==
    \/ AddrLt(start_address, USER_CODE_START)
    \/ AddrGe(end_address, USER_CODE_END)

\* process.rs:127-136  the copy of the segment's bytes
copy_data(m, segment) ==
    [m EXCEPT !.written = @ \cup
        (segment.address.pg .. AddrAdd(AddrAdd(segment.address, segment.size), -1).pg)]

\* process.rs:103-137
RECURSIVE load_segments(_, _, _)
load_segments(segments, m, fa) ==
    IF segments = <<>> THEN [err |-> "", cause |-> "", mapper |-> m, fa |-> fa]
    ELSE LET segment == Head(segments)
             start_address == segment.address
             end_address == AddrAdd(start_address, segment.size)
         IN  IF segment_outside_range(start_address, end_address)
             THEN [err |-> "ELF segment outside allowed range", cause |-> "",
                   mapper |-> m, fa |-> fa]
             ELSE Bind(allocate_pages_mapper(m, fa, start_address, segment.size,
                                             UserFlags), LAMBDA r :
                    IF r.err # ""
                    THEN [err |-> "Could not allocate memory", cause |-> r.err,
                          mapper |-> r.mapper, fa |-> r.fa]
                    ELSE Bind(copy_data(r.mapper, segment), LAMBDA m1 :
                           load_segments(Tail(segments), m1, r.fa)))

\* variant: the selectors are those of the kernel
user_context_in_ring0(m, new_thread, entry_point) ==
    LET context == new_thread.context
        m1 == WriteField(m, context, "rip", entry_point)
        m2 == WriteField(m1, context, "rsp", AsU64(USER_STACK_START) + USER_STACK_SIZE)
        m3 == WriteField(m2, context, "rflags", RFLAGS_IF)
        m4 == WriteField(m3, context, "cs", get_kernel_segments[1])
    IN  WriteField(m4, context, "ss", get_kernel_segments[2])

\* process.rs:159-174  "Set context registers"
user_context(m, new_thread, entry_point) ==
    LET context == new_thread.context
        m1 == WriteField(m, context, "rip", entry_point)
        m2 == WriteField(m1, context, "rsp", AsU64(USER_STACK_START) + USER_STACK_SIZE)
        m3 == WriteField(m2, context, "rflags", RFLAGS_IF)
        m4 == WriteField(m3, context, "cs", get_user_segments[1])
    IN  WriteField(m4, context, "ss", get_user_segments[2])

\* variant: only the first byte of the header is compared
first_byte_mismatch(bin) == bin.magic[1] # ELF_MAGIC[1]

\* process.rs:95  bin[0..4]: the slice of a buffer shorter than four bytes
range_end_out_of_range(bin) == Len(bin.magic) < 4

\* process.rs:95  bin[0..4] != ELF_MAGIC
header_mismatch(bin) == bin.magic # ELF_MAGIC

\* process.rs:91-174: everything before the push; the result is the one the
\* call returns (process.rs:96, :112, :124, :180, :182)
new_user_thread_build(bin, g) ==
    /\ ~spinning
    /\ KernelMode
    /\ creator[Running].pc = "idle"
    /\ loads < MaxLoads
    /\ loads' = loads + 1
    /\ LET before == [ called |-> TRUE, bin |-> bin, mapper |-> mapper,
                       frame_allocator |-> frame_allocator, next_id |-> next_id,
                       created |-> created ]
           fail(e, cause, m, fa) ==
               /\ load' = before @@ [result |-> Err(e), segment_err |-> cause,
                                     stack_err |-> "", panicked |-> ""]
               /\ mapper' = m
               /\ frame_allocator' = fa
               /\ UNCHANGED << mem, creator, next_id, expect, origin >>
           \* the call does not return: main.rs:196-200
           panics(message) ==
               /\ load' = before @@ [result |-> Err(""), segment_err |-> "",
                                     stack_err |-> "", panicked |-> message]
               /\ creator' = [creator EXCEPT ![Running].pc = "halted"]
               /\ UNCHANGED << mapper, frame_allocator, mem, next_id, expect,
                               origin >>
       IN  IF range_end_out_of_range(bin)
           THEN panics("range end index 4 out of range")
           ELSE IF header_mismatch(bin)
           THEN fail("Expected ELF binary", "", mapper, frame_allocator)
           ELSE IF ~bin.parse_ok
           THEN fail("Could not parse ELF", "", mapper, frame_allocator)
           ELSE \E l \in {load_segments(bin.segments, mapper, frame_allocator)} :
                IF l.err # "" THEN fail(l.err, l.cause, l.mapper, l.fa)
                ELSE /\ next_id < MaxThreads
                     /\ \E st \in {allocate_pages_mapper(l.mapper, l.fa,
                                      USER_STACK_START, USER_STACK_SIZE, UserFlags)} :
                        LET entry_point == bin.entry
                            new_thread == Thread(next_id + 1)
                        IN  /\ mem' = user_context(FreshStack(mem, new_thread, g),
                                                   new_thread, entry_point)
                            /\ origin' = [origin EXCEPT ![new_thread.id] = "user"]
                            /\ mapper' = st.mapper
                            /\ frame_allocator' = st.fa
                            /\ creator' = [creator EXCEPT ![Running] =
                                             [pc |-> "built",
                                              thread |-> Some(new_thread),
                                              was_enabled |-> FALSE]]
                            /\ next_id' = next_id + 1
                            /\ expect' = [expect EXCEPT ![new_thread.id] =
                                  Written(entry_point, get_user_segments[1], RFLAGS_IF,
                                          AsU64(USER_STACK_START) + USER_STACK_SIZE,
                                          get_user_segments[2])]
                            /\ load' = before @@ [result |-> Ok(entry_point),
                                                  segment_err |-> "",
                                                  stack_err |-> st.err,
                                                  panicked |-> ""]
    /\ UNCHANGED << devices, lapic, event, finer, RUNNING_QUEUE, CURRENT_THREAD, TSS,
                    queue_lock, cpu, spinning, since, created, last >>

(***************************************************************************)
(* The images handed to new_user_thread.                                   *)
(***************************************************************************)
SegmentStarts ==
    { AddrAdd(USER_CODE_START, -4096), USER_CODE_START, USER_STACK_START,
      AddrAdd(USER_CODE_END, -4096) }

SegmentSizes == {4096, 4097}

Segments == [address : SegmentStarts, size : SegmentSizes]

SegmentLists == UNION {[1..n -> Segments] : n \in 0..MaxSegments}

EntryPoints == {AsU64(USER_CODE_START), BootRip}

Image(magic, parse_ok, entry, segments) ==
    [magic |-> magic, parse_ok |-> parse_ok, entry |-> entry, segments |-> segments]

\* "BAD!"
BadMagic == <<66, 65, 68, 33>>

\* buffers of fewer than four bytes: the empty one, and 0x7F "EL"
ShortBuffers == { << >>, <<127, 69, 76>> }

\* 0x7F "BAD": a header that differs from the magic after its first byte
NearMagic == <<127, 66, 65, 68>>

Images ==
    {Image(BadMagic, FALSE, 0, <<>>), Image(ELF_MAGIC, FALSE, 0, <<>>)}
    \cup {Image(h, FALSE, 0, <<>>) : h \in ShortBuffers}
    \cup {Image(h, TRUE, AsU64(USER_CODE_START),
                <<[address |-> USER_CODE_START, size |-> 4096]>>) :
             h \in {BadMagic, NearMagic}}
    \cup {Image(ELF_MAGIC, TRUE, AsU64(USER_CODE_START), sl) : sl \in SegmentLists}
    \cup {Image(ELF_MAGIC, TRUE, e, sl) :
             e \in EntryPoints, sl \in {l \in SegmentLists : Len(l) <= 1}}

\* the images the scheduler model starts user threads from
HelloImage ==
    Image(ELF_MAGIC, TRUE, AsU64(USER_CODE_START),
          <<[address |-> USER_CODE_START, size |-> 4096]>>)

SchedImages == {HelloImage, Image(BadMagic, FALSE, 0, <<>>)}

(***************************************************************************)
(* The scancode queue: task/keyboard.rs.                                   *)
(***************************************************************************)
\* keyboard.rs:18  ArrayQueue::new(100)
QueueCapacity == 100

\* the keyboards: what they send is fixed by the stream and the position
Streams == 1..MaxStreams

\* interrupts.rs:363-364  port 0x60: the k-th byte of the stream
Port60(stream, k) == (stream * k) % 256

\* the keyboard before its first interrupt.  k counts its interrupts,
\* arrived holds the bytes read since the queue was initialised, warnings
\* and uninit count the two warnings of add_scancode, wakes the calls of
\* WAKER.wake(), pops the bytes the consumer took; waker says whether the
\* consumer's waker is registered (keyboard.rs:8); woken whether the task
\* has been woken since it was last polled, pc where the task is in
\* poll_next, taken the bytes it was given
NoKeys(stream) ==
    [ stream |-> stream, k |-> 0, arrived |-> << >>, warnings |-> 0, uninit |-> 0,
      wakes |-> 0, pops |-> 0, waker |-> FALSE, woken |-> FALSE,
      pc |-> "spawned", taken |-> << >> ]

\* variant: a full queue makes room by dropping its oldest byte
force_push(queue, scancode) ==
    [ ok |-> TRUE,
      queue |-> IF Len(queue) < QueueCapacity THEN Append(queue, scancode)
                ELSE Append(Tail(queue), scancode) ]

\* keyboard.rs:53  ArrayQueue::push: Err when the queue is full
push(queue, scancode) ==
    IF Len(queue) < QueueCapacity
    THEN [ok |-> TRUE, queue |-> Append(queue, scancode)]
    ELSE [ok |-> FALSE, queue |-> queue]

\* variant: the lock is taken by whoever asks
tty_print_unlocked(active) == IF active.tty # None THEN "tty" ELSE "uart"

\* tty.rs:125-140  _print: where the text goes, or "spin" when the caller
\* waits for ACTIVE_TTY.lock()
tty_print(active) ==
    IF active.locked THEN "spin"
    ELSE IF active.tty # None THEN "tty" ELSE "uart"

\* keyboard.rs:51-61: the cell it leaves, the warning it prints and where,
\* and whether it calls WAKER.wake()
add_scancode(cell, active, scancode) ==
    IF cell # None
    THEN LET pushed == push(cell[1], scancode)
         IN  IF ~pushed.ok
             THEN [cell |-> cell, warning |-> "full", out |-> tty_print(active),
                   wake |-> FALSE]
             ELSE [cell |-> Some(pushed.queue), warning |-> "", out |-> "",
                   wake |-> TRUE]
    ELSE [cell |-> cell, warning |-> "uninit", out |-> tty_print(active),
          wake |-> FALSE]

\* ghost: the keyboard's record after a run of add_scancode
Keyed(k, cell, scancode, a) ==
    [k EXCEPT !.k = @ + 1,
              !.arrived = IF cell # None THEN Append(@, scancode) ELSE @,
              !.warnings = IF a.warning = "full" THEN @ + 1 ELSE @,
              !.uninit = IF a.warning = "uninit" THEN @ + 1 ELSE @,
              !.wakes = IF a.wake THEN @ + 1 ELSE @,
              !.woken = IF a.wake /\ k.waker THEN TRUE ELSE @,
              !.waker = IF a.wake THEN FALSE ELSE @]

\* what the handlers of the devices and of the exceptions leave alone
threads == << RUNNING_QUEUE, CURRENT_THREAD, TSS, queue_lock, mem, creator, next_id,
              since, created, last, expect, origin, paging, finer >>

\* interrupts.rs:358-369.  The vector is an interrupt gate
\* (interrupts.rs:234-237): the handler is one step.  When the warning has
\* to wait for ACTIVE_TTY the handler never returns: the holder is the code
\* it interrupted.
keyboard_interrupt_handler ==
    /\ ~spinning
    /\ Deliverable
    /\ "ioapic" \in hw
    /\ ~RedirectionTable(IrqOffset)[KeyboardIrq].masked
    /\ HandlerOf("keyboard") = "keyboard_interrupt_handler"
    /\ \E scancode \in {Port60(kbd.stream, kbd.k + 1)} :
       \E a \in {add_scancode(SCANCODE_QUEUE, ACTIVE_TTY, scancode)} :
          /\ kbd' = Keyed(kbd, SCANCODE_QUEUE, scancode, a)
          /\ SCANCODE_QUEUE' = a.cell
          /\ IF a.out = "spin"
             THEN /\ spinning' = TRUE
                  /\ lapic' = Deliver(lapic, "keyboard")
                  /\ event' = [NoEvent EXCEPT !.vector = "keyboard",
                                  !.log = << "entry", "add_scancode", "spin" >>]
             ELSE \E eoi \in {send_eoi(Deliver(lapic, "keyboard"),
                                       << "entry", "add_scancode" >>)} :
                  /\ lapic' = eoi.lapic
                  /\ event' = [NoEvent EXCEPT !.vector = "keyboard",
                                  !.log = Append(eoi.log, "iretq")]
                  /\ UNCHANGED spinning
    /\ UNCHANGED << threads, cpu, boot, hw, ACTIVE_TTY >>

\* interrupts.rs:263-268, :270-275: a line on the serial port, then the
\* end of the interrupt
OtherDeviceInterrupt(vector) ==
    /\ ~spinning
    /\ Deliverable
    /\ HandlerOf(vector) = vector \o "_interrupt_handler"
    /\ \E eoi \in {send_eoi(Deliver(lapic, vector), << "entry", "serial_println" >>)} :
          /\ lapic' = eoi.lapic
          /\ event' = [NoEvent EXCEPT !.vector = vector,
                                      !.log = Append(eoi.log, "iretq")]
    /\ UNCHANGED << threads, cpu, spinning, devices >>

spurious_interrupt_handler == OtherDeviceInterrupt("spurious")

error_interrupt_handler == OtherDeviceInterrupt("error")

(***************************************************************************)
(* The exceptions: interrupts.rs:277-281, :371-415.                        *)
(***************************************************************************)
\* interrupts.rs:204-253  the exceptions the interrupt table has handlers for
Exceptions ==
    {"divide_error", "debug", "breakpoint", "invalid_opcode",
     "general_protection_fault", "page_fault", "double_fault"}

\* the processor's classes: a fault is reported at the instruction that
\* raised it, a trap after it; the debug exception is of either class by
\* its cause, a double fault is an abort
Classes(exception) ==
    CASE exception = "breakpoint" -> {"trap"}
      [] exception = "debug" -> {"fault", "trap"}
      [] exception = "double_fault" -> {"abort"}
      [] OTHER -> {"fault"}

\* the instruction after the one at rip
NextInstruction(rip) == rip + 1

\* the instruction pointer in the frame the processor pushes
SavedRip(class, rip) == IF class = "trap" THEN NextInstruction(rip) ELSE rip

\* main.rs:196-200  the panic handler: the message, then hlt_loop
panic(active) ==
    IF tty_print(active) = "spin" THEN << "panic", "spin" >>
    ELSE << "panic", "kprintln", "hlt_loop" >>

\* interrupts.rs:277-281, :371-415: the double fault panics; the others
\* print and return, which resumes at the saved instruction pointer
exception_handler(exception, active, saved_rip) ==
    IF exception = "double_fault"
    THEN [log |-> panic(active), resumed |-> None]
    ELSE IF tty_print(active) = "spin"
    THEN [log |-> << "spin" >>, resumed |-> None]
    ELSE [log |-> << "kprintln", "iretq" >>, resumed |-> Some(saved_rip)]

\* the code at the instruction pointer raises an exception.  The handlers
\* are interrupt gates: one step each.  Traps move the instruction
\* pointer, so their number in a row is bounded.
Exception(exception, class) ==
    /\ ~spinning
    /\ "idt" \in hw
    /\ class = "trap" => cpu["rip"] % 16 < MaxTraps
    /\ \E h \in {exception_handler(exception, ACTIVE_TTY,
                                   SavedRip(class, cpu["rip"]))} :
          /\ event' = [vector |-> exception, log |-> << "entry" >> \o h.log,
                       at |-> cpu["rip"], resumed |-> h.resumed]
          /\ spinning' = (h.resumed = None)
          /\ cpu' = IF h.resumed = None THEN cpu
                    ELSE [cpu EXCEPT !["rip"] = h.resumed[1]]
    /\ UNCHANGED << threads, devices, lapic >>

(***************************************************************************)
(* kernel_main: main.rs:113-187.                                           *)
(***************************************************************************)
\* what kernel_main sets up before it enables interrupts
Machine == {"gdt", "tss", "idt", "heap", "pic_masked", "lapic", "ioapic"}

\* variant: interrupts are enabled before the interrupt controllers are set up
kernel_main_enabling_early ==
    << "gdt::init", "init_idt", "init_heap", "interrupts::enable", "disable_pic",
       "init_apic", "activate_tty", "new_user_thread", "print_keypresses" >>

\* main.rs:114-182  the statements that change what is modelled here, in
\* their order; the last is where the executor polls the keyboard task
kernel_main ==
    << "gdt::init", "init_idt", "init_heap", "disable_pic", "init_apic",
       "interrupts::enable", "activate_tty", "new_user_thread",
       "print_keypresses" >>

\* the statement after a statement
After(statement) ==
    kernel_main[(CHOOSE i \in 1..Len(kernel_main) : kernel_main[i] = statement) + 1]

\* the boot flow is on the CPU and is at the statement
At(statement) ==
    /\ ~spinning
    /\ Running = 0
    /\ creator[0].pc = "idle"
    /\ boot = statement

\* interrupts.rs:52-53  the masks written to the two legacy controllers
PicMasks == << 255, 255 >>

\* interrupts.rs:21-55: the legacy controllers are set up anew, which
\* clears their masks, and the masks are written; the controller is masked
\* when every line of both is
disable_pic(h) ==
    IF \A i \in DOMAIN PicMasks : PicMasks[i] = 255
    THEN h \cup {"pic_masked"}
    ELSE h \ {"pic_masked"}

\* interrupts.rs:106-122
init_lapic(h, l) == [hw |-> h \cup {"lapic"}, lapic |-> [l EXCEPT !.LAPIC = TRUE]]

\* interrupts.rs:124-142
init_ioapic(h) == h \cup {"ioapic"}

\* interrupts.rs:144-166
init_apic(h, l) ==
    LET local == init_lapic(h, l)
    IN  [hw |-> disable_pic(init_ioapic(local.hw)), lapic |-> local.lapic]

\* a statement that fails: .expect() and panic!() end in the panic handler
Panics ==
    /\ spinning' = TRUE
    /\ event' = [NoEvent EXCEPT !.log = panic(ACTIVE_TTY)]
    /\ UNCHANGED << boot, hw, lapic >>

\* main.rs:114, gdt.rs:63-77
LoadDescriptorTables ==
    /\ At("gdt::init")
    /\ hw' = hw \cup {"gdt", "tss"}
    /\ boot' = After(boot)
    /\ UNCHANGED << threads, cpu, spinning, lapic, event, SCANCODE_QUEUE, ACTIVE_TTY,
                    kbd >>

\* main.rs:115, interrupts.rs:259-261
LoadInterruptTable ==
    /\ At("init_idt")
    /\ hw' = hw \cup {"idt"}
    /\ boot' = After(boot)
    /\ UNCHANGED << threads, cpu, spinning, lapic, event, SCANCODE_QUEUE, ACTIVE_TTY,
                    kbd >>

\* main.rs:119-126: the heap is initialised, or the kernel panics
InitHeap ==
    /\ At("init_heap")
    /\ \E ok \in BOOLEAN :
          IF ok THEN /\ hw' = hw \cup {"heap"}
                     /\ boot' = After(boot)
                     /\ UNCHANGED << spinning, lapic, event >>
          ELSE Panics
    /\ UNCHANGED << threads, cpu, SCANCODE_QUEUE, ACTIVE_TTY, kbd >>

\* main.rs:131
DisablePic ==
    /\ At("disable_pic")
    /\ hw' = disable_pic(hw)
    /\ boot' = After(boot)
    /\ UNCHANGED << threads, cpu, spinning, lapic, event, SCANCODE_QUEUE, ACTIVE_TTY,
                    kbd >>

\* main.rs:132: the controllers are set up, or the firmware tables make
\* the kernel panic (interrupts.rs:152-153, :163)
InitApic ==
    /\ At("init_apic")
    /\ \E ok \in BOOLEAN :
          IF ok THEN \E apic \in {init_apic(hw, lapic)} :
                     /\ hw' = apic.hw
                     /\ lapic' = apic.lapic
                     /\ boot' = After(boot)
                     /\ UNCHANGED << spinning, event >>
          ELSE Panics
    /\ UNCHANGED << threads, cpu, SCANCODE_QUEUE, ACTIVE_TTY, kbd >>

\* main.rs:154  sti
EnableInterrupts ==
    /\ At("interrupts::enable")
    /\ cpu' = [cpu EXCEPT !["rflags"] = IF InterruptsEnabled THEN @ ELSE @ + RFLAGS_IF]
    /\ boot' = After(boot)
    /\ UNCHANGED << threads, spinning, hw, lapic, event, SCANCODE_QUEUE, ACTIVE_TTY,
                    kbd >>

\* main.rs:157-159, tty.rs:14-17: the lock is taken, interrupts as they are
ActivateTtyLock ==
    /\ At("activate_tty")
    /\ ~ACTIVE_TTY.locked
    /\ ACTIVE_TTY' = [ACTIVE_TTY EXCEPT !.locked = TRUE]
    /\ UNCHANGED << threads, cpu, spinning, boot, hw, lapic, event, SCANCODE_QUEUE,
                    kbd >>

\* tty.rs:18-19: the terminal is stored and the guard dropped
ActivateTtyStore ==
    /\ At("activate_tty")
    /\ ACTIVE_TTY.locked
    /\ ACTIVE_TTY' = [locked |-> FALSE, tty |-> Some("tty0")]
    /\ boot' = After(boot)
    /\ UNCHANGED << threads, cpu, spinning, hw, lapic, event, SCANCODE_QUEUE, kbd >>

\* main.rs:173-177: the hello image is loaded; the result is dropped
LoadHello ==
    /\ boot = "new_user_thread"
    /\ Running = 0
    /\ loads = 0
    /\ new_user_thread_build(HelloImage, 0)

\* main.rs:179-182, keyboard.rs:64, :17-21: the executor is started and
\* the first poll of the keyboard task makes the queue
ScancodeStream_new ==
    /\ At("new_user_thread")
    /\ loads > 0
    /\ SCANCODE_QUEUE = None
    /\ SCANCODE_QUEUE' = Some(<< >>)
    /\ boot' = After(boot)
    /\ UNCHANGED << threads, cpu, spinning, hw, lapic, event, ACTIVE_TTY, kbd >>

\* keyboard.rs:27-45: a byte is taken, or the waker is registered and the
\* task is left pending
poll_next ==
    /\ At("print_keypresses")
    /\ IF SCANCODE_QUEUE[1] # << >>
       THEN /\ kbd.pops < MaxPolls
            /\ SCANCODE_QUEUE' = Some(Tail(SCANCODE_QUEUE[1]))
            /\ kbd' = [kbd EXCEPT !.pops = @ + 1, !.woken = FALSE,
                                  !.taken = Append(@, Head(SCANCODE_QUEUE[1]))]
       ELSE /\ ~kbd.waker
            /\ kbd' = [kbd EXCEPT !.waker = TRUE, !.woken = FALSE]
            /\ UNCHANGED SCANCODE_QUEUE
    /\ UNCHANGED << threads, cpu, spinning, boot, hw, lapic, event, ACTIVE_TTY >>

(***************************************************************************)
(* poll_next step by step: keyboard.rs:27-45.  The keyboard interrupt may  *)
(* come between any two steps.  AtomicWaker::register and ::wake are each  *)
(* one step: a wake that comes while register runs is made up for by       *)
(* register itself.                                                        *)
(***************************************************************************)
\* ArrayQueue::pop (keyboard.rs:33, :38)
pop(queue) ==
    IF queue = << >> THEN [scancode |-> None, queue |-> queue]
    ELSE [scancode |-> Some(Head(queue)), queue |-> Tail(queue)]

\* variant: Pending is returned as soon as the waker is registered
poll_next_unchecked(pc, scancode) ==
    IF pc = "pop" THEN (IF scancode # None THEN "pop" ELSE "register")
    ELSE IF pc = "register" THEN "pending"
    ELSE IF pc = "pop again" THEN (IF scancode # None THEN "take" ELSE "pending")
    ELSE "pop"

\* keyboard.rs:33-44, :68  where the task goes on: a byte returned is
\* handled by print_keypresses, which asks for the next at once
poll_next_after(pc, scancode) ==
    IF pc = "pop" THEN (IF scancode # None THEN "pop" ELSE "register")
    ELSE IF pc = "register" THEN "pop again"
    ELSE IF pc = "pop again" THEN (IF scancode # None THEN "take" ELSE "pending")
    ELSE "pop"

\* the task is polled: when spawned, and again once it has been woken
\* (main.rs:179-182, keyboard.rs:28-30)
Poll ==
    /\ At("print_keypresses")
    /\ kbd.pc = "spawned" \/ (kbd.pc = "pending" /\ kbd.woken)
    /\ kbd' = [kbd EXCEPT !.pc = "pop", !.woken = FALSE]
    /\ UNCHANGED << threads, cpu, spinning, boot, hw, lapic, event, ACTIVE_TTY,
                    SCANCODE_QUEUE >>

\* keyboard.rs:33-35  the fast path
FastPath ==
    /\ At("print_keypresses")
    /\ kbd.pc = "pop"
    /\ \E p \in {pop(SCANCODE_QUEUE[1])} :
          /\ SCANCODE_QUEUE' = Some(p.queue)
          /\ kbd' = [kbd EXCEPT !.pc = poll_next_after("pop", p.scancode),
                                !.taken = IF p.scancode # None
                                          THEN Append(@, p.scancode[1]) ELSE @]
    /\ UNCHANGED << threads, cpu, spinning, boot, hw, lapic, event, ACTIVE_TTY >>

\* keyboard.rs:37  WAKER.register(&cx.waker())
Register ==
    /\ At("print_keypresses")
    /\ kbd.pc = "register"
    /\ kbd' = [kbd EXCEPT !.pc = poll_next_after("register", None), !.waker = TRUE]
    /\ UNCHANGED << threads, cpu, spinning, boot, hw, lapic, event, ACTIVE_TTY,
                    SCANCODE_QUEUE >>

\* keyboard.rs:38-44  the second look at the queue; Pending when it is empty
SecondPop ==
    /\ At("print_keypresses")
    /\ kbd.pc = "pop again"
    /\ \E p \in {pop(SCANCODE_QUEUE[1])} :
          /\ SCANCODE_QUEUE' = Some(p.queue)
          /\ kbd' = [kbd EXCEPT !.pc = poll_next_after("pop again", p.scancode),
                                !.taken = IF p.scancode # None
                                          THEN Append(@, p.scancode[1]) ELSE @]
    /\ UNCHANGED << threads, cpu, spinning, boot, hw, lapic, event, ACTIVE_TTY >>

\* keyboard.rs:40-41  WAKER.take(), then Ready
Take ==
    /\ At("print_keypresses")
    /\ kbd.pc = "take"
    /\ kbd' = [kbd EXCEPT !.pc = poll_next_after("take", None), !.waker = FALSE]
    /\ UNCHANGED << threads, cpu, spinning, boot, hw, lapic, event, ACTIVE_TTY,
                    SCANCODE_QUEUE >>

\* the state when kernel_main is about to load its image (main.rs:173):
\* the machine is set up, interrupts are enabled, the terminal is active
SchedulerInit ==
    /\ RUNNING_QUEUE = <<>>
    /\ CURRENT_THREAD = None
    /\ TSS = [i \in {DOUBLE_FAULT_IST_INDEX, TIMER_INTERRUPT_INDEX} |-> FaultStackEnd]
    /\ queue_lock = "free"
    /\ mem = << >>
    /\ creator = [c \in Contexts |-> Idle]
    /\ next_id = 0
    /\ spinning = FALSE
    /\ since = [n \in ThreadIds |-> -1]
    /\ created = {}
    /\ last = NoCall
    /\ expect = [n \in ThreadIds |-> << >>]
    /\ origin = [n \in ThreadIds |-> ""]
    /\ mapper = [mapped |-> << >>, tables |-> {}, written |-> {}]
    /\ loads = 0
    /\ load = NoLoad
    /\ stub = NoStub
    /\ handed = << >>

\* ... with the allocator as init_heap leaves it (main.rs:122-124)
ThreadsInit ==
    /\ SchedulerInit
    /\ frame_allocator = [memory_regions |-> memory_regions, next |-> HeapFrames]

\* the registers of the boot flow
BootCpu(rflags) ==
    [r \in Regs |->
        CASE r = "rip" -> BootRip
          [] r = "cs" -> get_kernel_segments[1]
          [] r = "ss" -> get_kernel_segments[2]
          [] r = "rflags" -> rflags
          [] r = "rsp" -> BootStackTop
          [] OTHER -> 0]

Init ==
    /\ ThreadsInit
    /\ cpu = BootCpu(RFLAGS_IF)
    /\ boot = "new_user_thread"
    /\ hw = Machine
    /\ lapic = [LAPIC |-> TRUE, isr |-> << >>]
    /\ SCANCODE_QUEUE = None
    /\ ACTIVE_TTY = [locked |-> FALSE, tty |-> Some("tty0")]
    /\ kbd = NoKeys(1)
    /\ event = NoEvent

\* the state kernel_main is entered in (main.rs:113): interrupts disabled,
\* nothing set up
InitBoot ==
    /\ ThreadsInit
    /\ cpu = BootCpu(0)
    /\ boot = kernel_main[1]
    /\ hw = {}
    /\ lapic = [LAPIC |-> FALSE, isr |-> << >>]
    /\ SCANCODE_QUEUE = None
    /\ ACTIVE_TTY = [locked |-> FALSE, tty |-> None]
    /\ kbd \in {NoKeys(stream) : stream \in Streams}
    /\ event = NoEvent

\* thread creation's steps inside without_interrupts
CriticalSection ==
    \/ EnterCritical
    \/ LockQueue
    \/ PushNewThread
    \/ UnlockQueue
    \/ LeaveCritical

\* the scheduler: thread creation by the boot flow and by kernel threads,
\* interleaved with timer interrupts
Next ==
    \/ timer_interrupt_handler
    \/ \E f \in KernelFns : new_kernel_thread_build(f, 0)
    \/ \E bin \in SchedImages : new_user_thread_build(bin, 0)
    \/ CriticalSection

Spec == Init /\ [][Next]_vars

\* main.rs:51  the function the kernel threads of these behaviours start on
StubFns == {"kernel_thread_main"}

\* the register contexts: as Next, with code that changes the registers
\* between interrupts and with every content of uninitialised stack memory;
\* the hello image is loaded once, as kernel_main does (main.rs:173)
NextStub ==
    \/ timer_interrupt_handler
    \/ \E k \in 1..MaxRun : Run(k)
    \/ \E f \in StubFns, g \in 0..MaxFill :
          next_id < MaxStubThreads /\ new_kernel_thread_build(f, g)
    \/ \E g \in 0..MaxFill :
          /\ next_id < MaxStubThreads
          /\ loads = 0
          /\ new_user_thread_build(HelloImage, g)
    \/ CriticalSection

SpecStub == Init /\ [][NextStub]_vars

\* the timer stub instruction by instruction; between its activations
\* code runs and creates threads, and the keyboard interrupts wherever the
\* CPU takes it
NextInstructions ==
    \/ TimerEntry
    \/ Cli
    \/ PushRegisters
    \/ CallHandler
    \/ MovRspRax
    \/ PopRegisters
    \/ Sti
    \/ Iretq
    \/ stub.at = << >> /\ \E k \in 1..MaxRun : Run(k)
    \/ \E f \in StubFns :
          /\ stub.at = << >>
          /\ next_id < MaxStepThreads
          /\ new_kernel_thread_build(f, 0)
    \/ /\ stub.at = << >>
       /\ next_id < MaxStepThreads
       /\ loads = 0
       /\ new_user_thread_build(HelloImage, 0)
    \/ stub.at = << >> /\ CriticalSection
    \/ /\ ~stub.shadow
       /\ kbd.k < MaxStepKeys
       /\ keyboard_interrupt_handler

SpecInstructions == Init /\ [][NextInstructions]_vars

\* the frame allocator alone: fresh from init (main.rs:122) on any memory
\* map, called again and again
InitFrames ==
    /\ SchedulerInit
    /\ frame_allocator \in {BootInfoFrameAllocator_init(regions) : regions \in MemoryMaps}
    /\ cpu = BootCpu(0)
    /\ boot = "init_heap"
    /\ hw = {"gdt", "tss", "idt"}
    /\ lapic = [LAPIC |-> FALSE, isr |-> << >>]
    /\ SCANCODE_QUEUE = None
    /\ ACTIVE_TTY = [locked |-> FALSE, tty |-> None]
    /\ kbd = NoKeys(1)
    /\ event = NoEvent

SpecFrames == InitFrames /\ [][AllocateFrame]_vars

\* the regions allocate_pages_mapper is asked for: from the start of a
\* page and from its last byte, at the user stack, and at the last page of
\* a level-1 page table
MapStarts ==
    { USER_CODE_START, AddrAdd(USER_CODE_START, 4095), USER_STACK_START,
      AddrAdd(USER_CODE_START, 511 * 4096) }

MapSizes == {1, 4096, 4097, 2 * 4096 + 2}

MapFlags == {UserFlags, {"PRESENT"}}

\* the frames left when the calls begin: all of them, or two, one, none
MapCursors ==
    {HeapFrames} \cup
    { Len(usable_frames(memory_regions)) - left : left \in 0..2 }

\* allocate_pages_mapper alone, on the page tables and the allocator the
\* calls before have left
InitPages ==
    /\ SchedulerInit
    /\ frame_allocator \in
          { [memory_regions |-> memory_regions, next |-> n] : n \in MapCursors }
    /\ cpu = BootCpu(RFLAGS_IF)
    /\ boot = "new_user_thread"
    /\ hw = Machine
    /\ lapic = [LAPIC |-> TRUE, isr |-> << >>]
    /\ SCANCODE_QUEUE = None
    /\ ACTIVE_TTY = [locked |-> FALSE, tty |-> Some("tty0")]
    /\ kbd = NoKeys(1)
    /\ event = NoEvent

\* one call of allocate_pages_mapper (memory.rs:140-164); load records it
AllocatePages ==
    /\ loads < MaxMapCalls
    /\ loads' = loads + 1
    /\ \E start_addr \in MapStarts, size \in MapSizes, flags \in MapFlags :
       \E r \in {allocate_pages_mapper(mapper, frame_allocator, start_addr, size,
                                       flags)} :
          /\ mapper' = r.mapper
          /\ frame_allocator' = r.fa
          /\ load' = [ called |-> TRUE, start_addr |-> start_addr, size |-> size,
                       flags |-> flags, mapper |-> mapper,
                       frame_allocator |-> frame_allocator, err |-> r.err ]
    /\ UNCHANGED << devices, lapic, event, finer, RUNNING_QUEUE, CURRENT_THREAD, TSS,
                    queue_lock, mem, cpu, creator, next_id, spinning, since, created,
                    last, expect, origin >>

SpecPages == InitPages /\ [][AllocatePages]_vars

\* the scheduler with a timer that keeps ticking: the periodic timer of the
\* local controller (interrupts.rs:109-117) interrupts whenever interrupts
\* stay enabled, and code inside without_interrupts runs on to its end
NextFair ==
    \/ timer_interrupt_handler
    \/ \E f \in StubFns :
          next_id < MaxFairThreads /\ new_kernel_thread_build(f, 0)
    \/ CriticalSection

SpecFair ==
    /\ Init
    /\ [][NextFair]_vars
    /\ WF_vars(timer_interrupt_handler)
    /\ WF_vars(CriticalSection)

\* the loader on every image, with the timer running
NextElf ==
    \/ \E bin \in Images : new_user_thread_build(bin, 0)
    \/ CriticalSection
    \/ timer_interrupt_handler

SpecElf == Init /\ [][NextElf]_vars

\* the statements of kernel_main
KernelMain ==
    \/ LoadDescriptorTables
    \/ LoadInterruptTable
    \/ InitHeap
    \/ DisablePic
    \/ InitApic
    \/ EnableInterrupts
    \/ ActivateTtyLock
    \/ ActivateTtyStore
    \/ LoadHello
    \/ CriticalSection
    \/ ScancodeStream_new

\* the boot of the kernel, with the interrupts of the devices and the
\* exceptions of the code that runs
NextBoot ==
    \/ KernelMain
    \/ poll_next
    \/ timer_interrupt_handler
    \/ kbd.k < MaxBootKeys /\ keyboard_interrupt_handler
    \/ spurious_interrupt_handler
    \/ error_interrupt_handler
    \/ \E exception \in Exceptions : \E class \in Classes(exception) :
          Exception(exception, class)

SpecBoot == InitBoot /\ [][NextBoot]_vars

\* the keyboard from the boot on: a few interrupts before the scancode
\* queue exists, then enough to fill it
NextKeyboard ==
    \/ KernelMain
    \/ poll_next
    \/ timer_interrupt_handler
    \/ /\ kbd.k < IF SCANCODE_QUEUE = None THEN MaxBootKeys ELSE MaxKeys
       /\ keyboard_interrupt_handler

SpecKeyboard == InitBoot /\ [][NextKeyboard]_vars

\* the keyboard task polled step by step, with keyboard interrupts between
\* the steps
NextWaker ==
    \/ KernelMain
    \/ Poll
    \/ FastPath
    \/ Register
    \/ SecondPop
    \/ Take
    \/ kbd.k < MaxWakerKeys /\ keyboard_interrupt_handler

SpecWaker == InitBoot /\ [][NextWaker]_vars

(***************************************************************************)
(* Properties of the scheduler.                                            *)
(***************************************************************************)
\* the threads of the Ready Queue, front first
QueueIds == [i \in 1..Len(RUNNING_QUEUE) |-> RUNNING_QUEUE[i].id]

\* how often thread n is held by the Ready Queue and the Current-Thread slot
Holders(n) ==
    Cardinality({i \in 1..Len(RUNNING_QUEUE) : RUNNING_QUEUE[i].id = n})
    + (IF CURRENT_THREAD # None /\ CURRENT_THREAD[1].id = n THEN 1 ELSE 0)

\* nobody is inside new_kernel_thread or new_user_thread
NoCreation == \A c \in Contexts : creator[c].pc \in {"idle", "halted"}

\* C1: the thread schedule_next puts in the Current-Thread slot is the one
\* that has waited in the Ready Queue longest: no waiting thread was
\* enqueued before it, the preempted thread counting as enqueued by the
\* call itself.
C1_LongestWaitingSelected ==
    (last.called /\ CURRENT_THREAD # None) =>
        \A n \in ThreadIds : last.since[n] <= last.since[CURRENT_THREAD[1].id]

\* a call that preempted a thread and chose among three waiting threads
C1_Witness ==
    /\ last.called
    /\ last.had_current
    /\ last.queue_len = 2
    /\ CURRENT_THREAD # None
    /\ last.since[CURRENT_THREAD[1].id] = 2

\* C2: no thread is ever held twice (twice in the queue, or in the queue
\* and in the slot), and outside thread creation every thread created is
\* held exactly once, so none is lost.
C2_ExactlyOneOwner ==
    /\ \A n \in ThreadIds : Holders(n) <= 1
    /\ \A n \in ThreadIds : Holders(n) = 1 => n \in created
    /\ NoCreation => \A n \in 1..next_id : Holders(n) = 1

\* three threads, one running and two waiting, after a preemption
C2_Witness ==
    /\ NoCreation
    /\ next_id = 3
    /\ last.had_current
    /\ CURRENT_THREAD # None
    /\ Len(RUNNING_QUEUE) = 2

\* C3 as stated: a call of schedule_next that finds the Ready Queue empty
\* returns 0.
C3_EmptyQueueReturnsZero ==
    (last.called /\ last.queue_len = 0) => last.ret = 0

\* C3, amended: a call that finds the Ready Queue empty returns 0 when the
\* Current-Thread slot is empty too; when the slot is occupied it returns
\* the context address it was given, and the same thread stays current.
C3_EmptyQueueKeepsRunning ==
    (last.called /\ last.queue_len = 0) =>
        /\ ~last.had_current => (last.ret = 0 /\ CURRENT_THREAD = None)
        /\ last.had_current =>
              /\ last.ret = last.context_addr
              /\ CURRENT_THREAD # None
              /\ last.since[CURRENT_THREAD[1].id] = 0

\* the only thread was preempted and selected again
C3_Witness ==
    /\ last.called
    /\ last.queue_len = 0
    /\ last.had_current
    /\ last.ret = last.context_addr
    /\ last.ret # 0

\* who runs and who waits
Sched(running, waiting) == Running = running /\ QueueIds = waiting

\* C4: with threads 1, 2, 3 created in that order and nothing running,
\* successive timer interrupts run 1, then 2, then 3, then 1 again.
C4_RoundRobinOrder ==
    [][ timer_interrupt_handler =>
          /\ Sched(0, <<1, 2, 3>>) => Sched(1, <<2, 3>>)'
          /\ Sched(1, <<2, 3>>) => Sched(2, <<3, 1>>)'
          /\ Sched(2, <<3, 1>>) => Sched(3, <<1, 2>>)'
          /\ Sched(3, <<1, 2>>) => Sched(1, <<2, 3>>)' ]_vars

\* thread 1 runs again, thread 3 being the one just preempted
C4_Witness ==
    /\ Sched(1, <<2, 3>>)
    /\ last.had_current
    /\ last.since[3] = 0
    /\ last.since[1] = 2

\* C5: the lock of the Ready Queue is held by normal code only while
\* interrupts are disabled, and the timer handler never spins on it.
C5_NoSelfDeadlock ==
    /\ ~spinning
    /\ queue_lock # "free" => ~InterruptsEnabled

\* a thread holds the lock, having had interrupts enabled before, while the
\* timer is running
C5_Witness ==
    /\ queue_lock = "write"
    /\ creator[Running].was_enabled
    /\ last.called
    /\ CURRENT_THREAD # None

\* the fields thread creation writes, which are those iretq pops
IretqFields == {IretqPopOrder[i] : i \in 1..Len(IretqPopOrder)}

\* the thread selected by the last call had never run
SelectedFresh == last.called /\ last.ret # 0 /\ DOMAIN last.expect = IretqFields

\* the thread selected by the last call had been preempted before
SelectedPreempted == last.called /\ last.ret # 0 /\ DOMAIN last.expect = Regs

\* C6: when the timer stub switches to the context thread creation wrote,
\* its pops and iretq leave in rip, cs, rflags, rsp and ss exactly the
\* values that new_kernel_thread or new_user_thread stored.
C6_CreationRoundTrip ==
    [][ (timer_interrupt_handler /\ SelectedFresh') =>
           \A f \in IretqFields : cpu'[f] = last'.expect[f] ]_vars

\* a user thread has just been entered for the first time, preempting
\* another thread
C6_Witness ==
    /\ SelectedFresh
    /\ last.had_current
    /\ last.expect["cs"] = get_user_segments[1]
    /\ cpu["rip"] = AsU64(USER_CODE_START)
    /\ Rpl(cpu["ss"]) = 3

\* the stub's pushes and pops, the Context record and its size agree
LayoutAgrees ==
    /\ Len(PushOrder) = 15
    /\ Len(PopOrder) = 15
    /\ \A i \in 1..15 : PopOrder[i] = PushOrder[16 - i]
    /\ ContextFields = PopOrder \o IretqPopOrder
    /\ ContextSize = INTERRUPT_CONTEXT_SIZE
    /\ INTERRUPT_CONTEXT_SIZE = 160

\* the context of every waiting thread, new or preempted, lies within its
\* kernel stack and is complete
QueuedContextsWhole ==
    \A i \in 1..Len(RUNNING_QUEUE) :
        LET t == RUNNING_QUEUE[i]
        IN  /\ t.kernel_stack <= t.context
            /\ t.context + INTERRUPT_CONTEXT_SIZE <= t.kernel_stack_end
            /\ \A f \in Regs : (t.context + FieldOffset(f)) \in DOMAIN mem

\* C7: the stub pushes 15 registers and pops them in reverse; what it
\* leaves in memory, read lowest address first, is the Context record of
\* INTERRUPT_CONTEXT_SIZE = 160 bytes, holding the interrupted registers;
\* the context of every waiting thread, new or preempted, has that place
\* and size; a preempted thread resumes with all its registers, and with no
\* thread to run the interrupted code resumes unchanged.
C7_StubMatchesContext ==
    /\ [](LayoutAgrees /\ QueuedContextsWhole)
    /\ [][ timer_interrupt_handler =>
             /\ \A f \in Regs : mem'[last'.context_addr + FieldOffset(f)] = cpu[f]
             /\ SelectedPreempted' => cpu' = last'.expect
             /\ last'.ret = 0 => cpu' = cpu ]_vars

\* a thread preempted earlier has just been resumed in place of another
\* one, whose registers differ from its own
C7_Witness ==
    /\ SelectedPreempted
    /\ last.had_current
    /\ cpu = last.expect
    /\ RUNNING_QUEUE # << >>
    /\ LET preempted == expect[RUNNING_QUEUE[Len(RUNNING_QUEUE)].id]
       IN  /\ DOMAIN preempted = Regs
           /\ \E r \in GeneralRegs : cpu[r] # preempted[r]

\* C8: when schedule_next has selected a thread, the timer's slot of the
\* interrupt stack table is that thread's kernel-stack top and the value
\* returned is its context address; the slot of the fault handlers is never
\* changed; so a timer interrupt of a current thread saves the registers on
\* that thread's own kernel stack.
C8_TimerStackFollowsCurrent ==
    /\ TSS[DOUBLE_FAULT_IST_INDEX] = FaultStackEnd
    /\ (last.called /\ last.ret # 0) =>
          /\ CURRENT_THREAD # None
          /\ TSS[TIMER_INTERRUPT_INDEX] = CURRENT_THREAD[1].kernel_stack_end
          /\ last.ret = CURRENT_THREAD[1].context
    /\ CURRENT_THREAD # None =>
          TSS[TIMER_INTERRUPT_INDEX] = CURRENT_THREAD[1].kernel_stack_end
    /\ \A n \in ThreadIds :
          (last.called /\ last.had_current /\ last.since[n] = 0) =>
              /\ Thread(n).kernel_stack <= last.context_addr
              /\ last.context_addr + INTERRUPT_CONTEXT_SIZE
                    = AlignDown16(Thread(n).kernel_stack_end)

\* a second thread was selected while the first one was preempted on its
\* own stack
C8_Witness ==
    /\ last.called
    /\ last.had_current
    /\ last.ret # 0
    /\ last.ret # last.context_addr
    /\ CURRENT_THREAD # None
    /\ TSS[TIMER_INTERRUPT_INDEX] = Thread(2).kernel_stack_end
    /\ TSS[TIMER_INTERRUPT_INDEX] # TSS[DOUBLE_FAULT_IST_INDEX]

(***************************************************************************)
(* Properties of the loader.                                               *)
(***************************************************************************)
\* the last call of new_user_thread was given a parsable ELF image with one
\* loadable segment
SingleSegment ==
    /\ load.called
    /\ load.bin.magic = ELF_MAGIC
    /\ load.bin.parse_ok
    /\ Len(load.bin.segments) = 1

\* that segment's first address and the address after its last byte
SegmentStart == load.bin.segments[1].address
SegmentEnd == AddrAdd(SegmentStart, load.bin.segments[1].size)

OutsideRange == Err("ELF segment outside allowed range")

\* C9: a segment that starts in the user-code window and whose end address
\* is exactly USER_CODE_END is not rejected as outside the allowed range;
\* a segment whose end address is one byte past USER_CODE_END is.
C9_EndAtBoundAccepted ==
    SingleSegment =>
        /\ (AddrGe(SegmentStart, USER_CODE_START) /\ SegmentEnd = USER_CODE_END)
              => load.result # OutsideRange
        /\ SegmentEnd = AddrAdd(USER_CODE_END, 1) => load.result = OutsideRange

\* C10: an image whose single segment starts below USER_CODE_START is
\* refused as outside the allowed range; the page tables and the frame
\* allocator are left as they were, and no thread is allocated or queued.
C10_BelowWindowRejected ==
    (SingleSegment /\ AddrLt(SegmentStart, USER_CODE_START)) =>
        /\ load.result = OutsideRange
        /\ mapper = load.mapper
        /\ frame_allocator = load.frame_allocator
        /\ next_id = load.next_id
        /\ created = load.created
        /\ NoCreation

\* the refused segment starts one page below the window, after an earlier
\* image was loaded and its thread queued
C10_Witness ==
    /\ SingleSegment
    /\ SegmentStart = AddrAdd(USER_CODE_START, -4096)
    /\ load.result = OutsideRange
    /\ load.mapper.mapped # << >>
    /\ load.created # {}
    /\ frame_allocator.next > HeapFrames

NotElf == Err("Expected ELF binary")

\* the last call of new_user_thread left the page tables, the frame
\* allocator, the threads and the queue as it found them
LoadLeftNothing ==
    /\ mapper = load.mapper
    /\ frame_allocator = load.frame_allocator
    /\ next_id = load.next_id
    /\ created = load.created
    /\ NoCreation

\* C11: a buffer whose first four bytes are not the ELF magic is refused as
\* not an ELF binary whatever the rest of it holds, so before any parsing
\* or segment processing; no page is mapped and no thread is queued.
C11_BadHeaderRejectedFirst ==
    (load.called /\ Len(load.bin.magic) = 4 /\ load.bin.magic # ELF_MAGIC) =>
        (load.result = NotElf /\ LoadLeftNothing)

\* the refused buffer would parse and load but for its header, which
\* differs from the magic only after the first byte
C11_Witness ==
    /\ load.called
    /\ load.bin.magic = NearMagic
    /\ load.bin.parse_ok
    /\ load.bin.segments # << >>
    /\ load.result = NotElf

\* C12: when mapping a page of a segment or of the user stack region
\* fails inside new_user_thread (no frame left, or the page is mapped
\* already), the call returns an error and no thread is built or queued.
C12_MappingFailuresReported ==
    (load.called /\ (load.segment_err # "" \/ load.stack_err # "")) =>
        /\ ~load.result.ok
        /\ next_id = load.next_id
        /\ created = load.created
        /\ NoCreation

AllocationFailed == Err("Could not allocate memory")

\* a segment of the image does not lie inside the user-code window
SomeSegmentOutside(bin) ==
    \E i \in 1..Len(bin.segments) :
        LET seg == bin.segments[i]
        IN  \/ AddrLt(seg.address, USER_CODE_START)
            \/ AddrLt(USER_CODE_END, AddrAdd(seg.address, seg.size))

\* a call of allocate_pages_mapper made by the last call failed
MappingFailed == load.segment_err # "" \/ load.stack_err # ""

\* C13: the result names the cause: no ELF magic gives the not-an-ELF
\* error, a segment outside the window the out-of-range error, a failed
\* mapping or frame allocation the allocation error; a successful load has
\* none of these causes.
C13_CausesDistinguished ==
    load.called =>
        /\ (Len(load.bin.magic) = 4 /\ load.bin.magic # ELF_MAGIC)
              => load.result = NotElf
        /\ (load.bin.magic = ELF_MAGIC /\ load.bin.parse_ok
               /\ Len(load.bin.segments) = 1 /\ SomeSegmentOutside(load.bin))
              => load.result = OutsideRange
        /\ MappingFailed => load.result = AllocationFailed
        /\ load.result.ok =>
              /\ load.bin.magic = ELF_MAGIC
              /\ ~SomeSegmentOutside(load.bin)
              /\ ~MappingFailed

(***************************************************************************)
(* Properties of thread creation.                                          *)
(***************************************************************************)
\* the word of field f in the Saved Register Context of thread t
Word(t, f) == mem[t.context + FieldOffset(f)]

\* thread n has been created and has not run yet
NeverRan(n) == DOMAIN expect[n] = IretqFields

\* the waiting threads made by new_kernel_thread that have not run yet
NewKernelThreads ==
    { RUNNING_QUEUE[i] : i \in { j \in 1..Len(RUNNING_QUEUE) :
          /\ origin[RUNNING_QUEUE[j].id] \in KernelFns
          /\ NeverRan(RUNNING_QUEUE[j].id) } }

\* what C14 and its amendment agree on: queued once, started on f with
\* interrupts enabled and the kernel's selectors
KernelContextBut(t) ==
    /\ Holders(t.id) = 1
    /\ Word(t, "rip") = FnAddr(origin[t.id])
    /\ Word(t, "rflags") = RFLAGS_IF
    /\ Word(t, "cs") = get_kernel_segments[1]
    /\ Word(t, "ss") = get_kernel_segments[2]
    /\ Rpl(Word(t, "cs")) = 0

\* C14 as stated: the thread new_kernel_thread(f) queues starts on f, with
\* interrupts enabled, the kernel's selectors, and its stack pointer at the
\* top of its kernel stack.
C14_KernelThreadOnKernelStack ==
    \A t \in NewKernelThreads :
        KernelContextBut(t) /\ Word(t, "rsp") = t.kernel_stack_end

\* C14, amended: the stack pointer is the top of the thread's user-stack
\* region, which is the stack the kernel thread runs on; the kernel stack
\* holds the Saved Register Context below its top.
C14_KernelThreadOnUserStackRegion ==
    \A t \in NewKernelThreads :
        /\ KernelContextBut(t)
        /\ Word(t, "rsp") = t.user_stack_end
        /\ t.user_stack_end = t.user_stack + USER_STACK_SIZE
        /\ t.context + INTERRUPT_CONTEXT_SIZE = t.kernel_stack_end

\* a thread started on test_kernel_fn2 waits, created by a running thread
C14_Witness ==
    /\ NoCreation
    /\ CURRENT_THREAD # None
    /\ \E t \in NewKernelThreads : origin[t.id] = "test_kernel_fn2"

\* the pages of the user stack region (process.rs:164-165)
StackPages ==
    USER_STACK_START.pg .. AddrAdd(AddrAdd(USER_STACK_START, USER_STACK_SIZE), -1).pg

\* the last call mapped the whole user stack region anew, present, writable
\* and user-accessible
StackFreshlyMapped ==
    /\ load.stack_err = ""
    /\ \A pg \in StackPages :
          /\ pg \notin DOMAIN load.mapper.mapped
          /\ pg \in DOMAIN mapper.mapped
          /\ mapper.mapped[pg].flags = {"PRESENT", "WRITABLE", "USER_ACCESSIBLE"}

\* the thread built by the last call, a successful one
LoadedThread == Thread(load.next_id + 1)

\* the last call succeeded and its thread has not run yet
LoadedNew == load.called /\ load.result.ok /\ NeverRan(LoadedThread.id)

\* what a successful load returns and writes: the entry point, the top of
\* the user stack region, interrupts enabled, the ring-3 selectors
UserContextWritten ==
    /\ load.result = Ok(load.bin.entry)
    /\ origin[LoadedThread.id] = "user"
    /\ Word(LoadedThread, "rip") = load.bin.entry
    /\ Word(LoadedThread, "rsp") = AsU64(USER_STACK_START) + USER_STACK_SIZE
    /\ Word(LoadedThread, "rflags") = RFLAGS_IF
    /\ Word(LoadedThread, "cs") = get_user_segments[1]
    /\ Word(LoadedThread, "ss") = get_user_segments[2]
    /\ Rpl(Word(LoadedThread, "cs")) = 3
    /\ Rpl(Word(LoadedThread, "ss")) = 3
    /\ NoCreation => Holders(LoadedThread.id) = 1

\* C15: a successful new_user_thread returns the entry point and queues one
\* thread whose context starts at the entry point, in ring 3, with
\* interrupts enabled, on the top of a user stack region that the call has
\* freshly mapped present, writable and user-accessible.
C15_UserThreadOnFreshStack ==
    LoadedNew => (UserContextWritten /\ StackFreshlyMapped)

\* the smaller of two numbers
Min(a, b) == IF a < b THEN a ELSE b

\* the scancode queue exists and the keyboard task has taken nothing from it
Undrained == SCANCODE_QUEUE # None /\ kbd.pops = 0

\* C16: while the scancode queue exists and nothing is taken from it, after
\* any number of keyboard interrupts it holds the first min(k, 100) bytes
\* read, in the order they arrived; every byte beyond them was dropped with
\* one warning each and without a wake-up, every byte kept was followed by
\* one wake-up
C16_QueueKeepsFirstBytes ==
    Undrained =>
        LET kept == Min(Len(kbd.arrived), QueueCapacity)
        IN  /\ SCANCODE_QUEUE[1] = SubSeq(kbd.arrived, 1, kept)
            /\ kbd.warnings = Len(kbd.arrived) - kept
            /\ kbd.wakes = kept

\* 101 interrupts have left 100 bytes and one warning
C16_Witness ==
    /\ Undrained
    /\ Len(kbd.arrived) = QueueCapacity + 1
    /\ Len(SCANCODE_QUEUE[1]) = QueueCapacity
    /\ kbd.warnings = 1
    /\ event.vector = "keyboard"

\* the last handler run was the keyboard's and it is waiting for a lock
KeyboardHandlerSpins ==
    /\ event.vector = "keyboard"
    /\ spinning
    /\ event.log[Len(event.log)] = "spin"

\* C17: the keyboard interrupt handler never waits for a lock the code it
\* interrupted holds: every run of it, whatever the state of the scancode
\* queue, ends with its return
C17_KeyboardHandlerNeverBlocks ==
    event.vector = "keyboard" =>
        /\ ~KeyboardHandlerSpins
        /\ event.log[Len(event.log)] = "iretq"

\* the places of a step in the log of the last handler run
Places(step) == {i \in DOMAIN event.log : event.log[i] = step}

\* the last handler run was a device's and it has returned
DeviceHandlerReturned ==
    /\ event.vector \in DeviceVectors
    /\ Places("iretq") # {}

\* C18: a handler of a device interrupt that returns has signalled the end
\* of the interrupt exactly once before its return, and the controller has
\* nothing in service afterwards; the timer's signal comes after
\* schedule_next and before the interrupt return, with and without a switch
C18_EoiOnceBeforeReturn ==
    DeviceHandlerReturned =>
        /\ Cardinality(Places("eoi")) = 1
        /\ \A i \in Places("eoi") : \A j \in Places("iretq") : i < j
        /\ lapic.isr = << >>
        /\ event.vector = "timer" =>
               /\ Places("schedule_next") # {}
               /\ \A i \in Places("schedule_next") : \A j \in Places("eoi") : i < j

\* the timer has switched to a thread and signalled the end of its interrupt
C18_Witness ==
    /\ DeviceHandlerReturned
    /\ event.vector = "timer"
    /\ last.ret # 0
    /\ CURRENT_THREAD # None
    /\ Places("eoi") # {}

\* the last handler run printed its diagnostic
Diagnosed == Places("kprintln") # {}

\* C19: a double fault prints a diagnostic and halts for ever without
\* returning; every other exception handled prints a diagnostic and resumes
\* at the instruction after the one that raised it
C19_FaultPolicy ==
    /\ event.vector = "double_fault" =>
           /\ Diagnosed
           /\ Places("hlt_loop") # {}
           /\ event.resumed = None
           /\ spinning
    /\ event.vector \in Exceptions \ {"double_fault"} =>
           /\ Diagnosed
           /\ event.resumed = Some(NextInstruction(event.at))

\* kernel_main is past a statement
Passed(statement) ==
    \E i, j \in DOMAIN kernel_main :
        kernel_main[i] = statement /\ kernel_main[j] = boot /\ i < j

\* a thread has been placed in the queue
ThreadPlaced == created # {} \/ RUNNING_QUEUE # << >> \/ CURRENT_THREAD # None

\* C20: interrupts are enabled only when the descriptor tables and the
\* task-state segment are loaded, the interrupt table is installed, the
\* heap is initialised, the two interrupt controllers are enabled and the
\* legacy controller is masked; and a thread is placed in the queue only
\* after all of that and the enabling of interrupts
C20_BootOrder ==
    /\ InterruptsEnabled => Machine \subseteq hw
    /\ ThreadPlaced => (Machine \subseteq hw /\ Passed("interrupts::enable"))

\* interrupts are enabled and the first thread is in the queue
C20_Witness ==
    /\ InterruptsEnabled
    /\ Machine \subseteq hw
    /\ RUNNING_QUEUE # << >>
    /\ Passed("interrupts::enable")

\* the effects only schedule_next has: the Current-Thread slot or the timer
\* slot of the interrupt stack table changes
ScheduleNextRan == CURRENT_THREAD' # CURRENT_THREAD \/ TSS' # TSS

\* C21: schedule_next runs only as the call of the timer stub and with
\* interrupts disabled; from the entry of the stub to its iretq no interrupt
\* is taken, so at most one activation exists at any time
C21_ScheduleNextNotReentered ==
    /\ [](Len(stub.at) <= 1)
    /\ [](stub.at # << >> =>
             /\ ~InterruptsEnabled \/ stub.shadow
             /\ event.vector = "timer")
    /\ [][ScheduleNextRan =>
             /\ Fetch = "call"
             /\ Len(stub.at) = 1
             /\ ~InterruptsEnabled]_vars

\* the stub is about to return to a thread it switched to, with another
\* thread waiting and the keyboard having interrupted before
C21_Witness ==
    /\ Fetch = "iretq"
    /\ CURRENT_THREAD # None
    /\ RUNNING_QUEUE # << >>
    /\ last.had_current
    /\ kbd.k > 0

\* interrupts.rs:208-251: the index of the interrupt stack table that the
\* gate of a vector names with set_stack_index
StackIndex(vector) ==
    CASE vector = "double_fault" -> DOUBLE_FAULT_IST_INDEX
      [] vector = "page_fault" -> PAGE_FAULT_IST_INDEX
      [] vector = "general_protection_fault" -> GENERAL_PROTECTION_FAULT_IST_INDEX
      [] vector = "timer" -> TIMER_INTERRUPT_INDEX
      [] vector = "keyboard" -> KEYBOARD_INTERRUPT_INDEX

\* the vectors that may fire while the current stack cannot be trusted
UntrustedStackVectors ==
    {"double_fault", "page_fault", "general_protection_fault", "timer"}

\* gdt.rs:18-19: the one static stack, by its top
StaticStacks == {FaultStackEnd}

\* C22: the vectors that may fire on an untrustworthy stack each have a
\* static alternate stack of their own: no two of them are bound to the same
\* stack, and every one of their stacks is a static region
C22_DedicatedStaticStacks ==
    /\ \A v, w \in UntrustedStackVectors :
          v # w => TSS[StackIndex(v)] # TSS[StackIndex(w)]
    /\ \A v \in UntrustedStackVectors : TSS[StackIndex(v)] \in StaticStacks

\* the frames handed out so far
Frames == {handed[i][1] : i \in {j \in DOMAIN handed : handed[j] # None}}

InUsableRegion(frame) ==
    \E i \in DOMAIN frame_allocator.memory_regions :
       LET r == frame_allocator.memory_regions[i]
       IN  r.kind = "Usable" /\ r.start <= frame /\ frame < r.end

\* C23: over any sequence of calls of allocate_frame on disjoint page-aligned
\* usable regions, every frame returned is distinct and lies in a usable
\* region, the cursor has advanced by one per call, and after a None every
\* later call returns None
C23_FramesNeverReused ==
    /\ frame_allocator.next = Len(handed)
    /\ \A i, j \in DOMAIN handed :
          /\ (i < j /\ handed[i] # None /\ handed[j] # None) => handed[i] # handed[j]
          /\ (i < j /\ handed[i] = None) => handed[j] = None
    /\ \A frame \in Frames : frame % 4096 = 0 /\ InUsableRegion(frame)

\* frames of two usable regions were handed out, across a reserved region,
\* and the calls after the last frame returned None
C23_Witness ==
    /\ Len(frame_allocator.memory_regions) = 2
    /\ \A i \in {1, 2} : frame_allocator.memory_regions[i].kind = "Usable"
    /\ frame_allocator.memory_regions[2].end < frame_allocator.memory_regions[1].start
    /\ Cardinality(Frames) = 3
    /\ Len(handed) = 5
    /\ handed[4] = None /\ handed[5] = None

\* the registers a Saved Register Context at an address holds
Block(address) == [f \in Regs |-> mem[address + FieldOffset(f)]]

\* the context the stub is to resume after the last call of the handler
Resumed == IF last.ret # 0 THEN last.ret ELSE last.context_addr

\* C24: the handler's only argument is the address of the block the stub
\* has just saved; the stack pointer is set to the returned address, if it
\* is not 0, before the first pop; the registers and the interrupt-return
\* frame are then taken from that context, or from the saved block on 0
C24_StubProtocol ==
    /\ [](Fetch = "mov rsp, rax" =>
             /\ cpu["rdi"] = cpu["rsp"]
             /\ cpu["rdi"] = last.context_addr
             /\ Block(cpu["rdi"]) = Head(stub.at).interrupted
             /\ cpu["rax"] = last.ret)
    /\ [](Fetch = "pop" => cpu["rsp"] = Resumed)
    /\ [](Fetch = "sti" =>
             /\ \A f \in GeneralRegs : cpu[f] = Block(Resumed)[f]
             /\ cpu["rsp"] = Resumed + FieldOffset("rip"))
    /\ [][Fetch = "iretq" => cpu' = Block(Resumed)]_vars

\* the handler returned the context of another thread than the one it
\* interrupted, and the stub is about to pop from it
C24_Witness ==
    /\ Fetch = "pop"
    /\ last.ret # 0
    /\ last.ret # last.context_addr
    /\ last.had_current
    /\ Block(last.ret) # Block(last.context_addr)

\* the threads the Ready Queue and the Current-Thread slot hold
Held ==
    {RUNNING_QUEUE[i] : i \in DOMAIN RUNNING_QUEUE}
    \cup (IF CURRENT_THREAD # None THEN {CURRENT_THREAD[1]} ELSE {})

\* the CPU is on the boot flow's stack or in its code
BootFlowOnCpu ==
    \/ cpu["rsp"] = BootStackTop
    \/ cpu["rip"] - (cpu["rip"] % 16) = BootRip

\* C25: a tick that finds a thread in the Ready Queue leaves the boot flow
\* for good: the first such tick finds the Current-Thread slot empty and
\* records the boot flow's saved context in no thread; from then on the slot
\* is never empty and the CPU runs threads only
C25_BootFlowNeverResumed ==
    /\ [](CURRENT_THREAD = None => (last.called => last.ret = 0))
    /\ [](CURRENT_THREAD # None => ~BootFlowOnCpu)
    /\ [](\A t \in Held : Block(t.context)["rsp"] # BootStackTop)
    /\ [][(timer_interrupt_handler /\ RUNNING_QUEUE # << >>)
             => CURRENT_THREAD' # None]_vars
    /\ [][(timer_interrupt_handler /\ CURRENT_THREAD = None)
             => \A t \in Held' : t.context # last'.context_addr]_vars
    /\ [][CURRENT_THREAD # None => CURRENT_THREAD' # None]_vars

\* the boot flow was interrupted while it created a second thread, with the
\* first one waiting; a later tick preempted that thread, and the boot flow
\* is where it was
C25_Witness ==
    /\ last.called
    /\ last.had_current
    /\ CURRENT_THREAD # None
    /\ creator[0].pc = "built"

\* C26: the device vectors are consecutive from 32: timer 32, keyboard 33,
\* error 34, spurious 35; once loaded, the interrupt table binds each to the
\* handler of its name; once set up, the I/O controller sends the keyboard's
\* line 1, unmasked, to the keyboard vector
C26_DeviceVectors ==
    /\ InterruptIndex("Timer") = 32
    /\ InterruptIndex("Keyboard") = 33
    /\ InterruptIndex("Error") = 34
    /\ InterruptIndex("Spurious") = 35
    /\ "idt" \in hw =>
          /\ IDT[32] = "timer_interrupt_handler"
          /\ IDT[33] = "keyboard_interrupt_handler"
          /\ IDT[34] = "error_interrupt_handler"
          /\ IDT[35] = "spurious_interrupt_handler"
    /\ "ioapic" \in hw =>
          RedirectionTable(IrqOffset)[1] = [vector |-> 33, masked |-> FALSE]
    /\ event.vector \in DeviceVectors =>
          HandlerOf(event.vector) = event.vector \o "_interrupt_handler"

\* a keyboard interrupt has been handled after a timer interrupt was
C26_Witness ==
    /\ event.vector = "keyboard"
    /\ "iretq" \in {event.log[i] : i \in DOMAIN event.log}
    /\ kbd.k > 0
    /\ CURRENT_THREAD # None

\* C27: a call of schedule_next(addr) with a thread in the Current-Thread
\* slot and an empty Ready Queue stamps that thread's context with addr and
\* selects it again: it stays current, the queue is empty afterwards, the
\* timer slot of the interrupt stack table is its kernel-stack top, and addr
\* is returned
C27_OnlyThreadReselected ==
    [][ (timer_interrupt_handler /\ CURRENT_THREAD # None /\ RUNNING_QUEUE = << >>) =>
          /\ CURRENT_THREAD' =
                Some([CURRENT_THREAD[1] EXCEPT !.context = last'.context_addr])
          /\ RUNNING_QUEUE' = << >>
          /\ TSS'[TIMER_INTERRUPT_INDEX] = CURRENT_THREAD[1].kernel_stack_end
          /\ last'.ret = last'.context_addr
          /\ last'.ret # 0 ]_vars

\* the only queued thread was selected again while a second thread was
\* being created
C27_Witness ==
    /\ last.called
    /\ last.had_current
    /\ last.queue_len = 0
    /\ RUNNING_QUEUE = << >>
    /\ CURRENT_THREAD # None
    /\ CURRENT_THREAD[1].context = last.context_addr
    /\ creator[0].pc = "built"

\* the address a thread's context was last saved at, by the record of a
\* call: where the tick that last preempted it said, or where thread
\* creation put it
SavedAtBy(l, n) ==
    IF l.stamped[n] # 0 THEN l.stamped[n]
    ELSE Thread(n).kernel_stack_end - INTERRUPT_CONTEXT_SIZE

SavedAt(n) == SavedAtBy(last, n)

\* C28: the address schedule_next returns when it makes a thread current is
\* the address it was passed when that thread was last preempted, or the
\* thread's initial context address, kernel-stack top - 160, if it never
\* ran; only the preemption of a thread changes its saved-context address
C28_ContextAddressRoundTrip ==
    /\ [](\A t \in Held : t.context = SavedAt(t.id))
    /\ [][(timer_interrupt_handler /\ CURRENT_THREAD' # None)
             => last'.ret = SavedAtBy(last', CURRENT_THREAD'[1].id)]_vars
    /\ [][\A t \in Held : \A u \in Held' :
             (u.id = t.id /\ u.context # t.context) =>
                 /\ timer_interrupt_handler
                 /\ CURRENT_THREAD = Some(t)
                 /\ u.context = last'.context_addr]_vars

\* a thread that was preempted earlier is made current again, in place of a
\* thread that had never run before
C28_Witness ==
    /\ last.called
    /\ last.had_current
    /\ CURRENT_THREAD # None
    /\ last.stamped[CURRENT_THREAD[1].id] # 0
    /\ last.ret = last.stamped[CURRENT_THREAD[1].id]
    /\ last.ret # last.context_addr
    /\ \E n \in ThreadIds : n \in created /\ last.stamped[n] = 0

\* the places of thread creation, each with the one that follows it
CreationOrder ==
    { <<"idle", "built">>, <<"built", "cli">>, <<"cli", "locked">>,
      <<"locked", "pushed">>, <<"pushed", "unlocked">>, <<"unlocked", "idle">> }

\* C29: thread creation only appends.  Every step of new_kernel_thread and
\* of a successful new_user_thread leaves the Current-Thread slot and the
\* timer slot of the interrupt stack table alone; one step of each call
\* puts the thread it built, a thread held nowhere before, behind the
\* threads already queued, and the other steps leave the Ready Queue alone;
\* so also for a call made by a running thread
C29_CreationOnlyAppends ==
    [][ creator' # creator =>
          /\ CURRENT_THREAD' = CURRENT_THREAD
          /\ TSS' = TSS
          /\ \A c \in Contexts :
                /\ creator'[c] # creator[c] =>
                      /\ c = Running
                      /\ <<creator[c].pc, creator'[c].pc>> \in CreationOrder
                /\ IF creator[c].pc = "locked" /\ creator'[c].pc = "pushed"
                   THEN /\ Holders(creator[c].thread[1].id) = 0
                        /\ RUNNING_QUEUE' = Append(RUNNING_QUEUE, creator[c].thread[1])
                   ELSE creator'[c] # creator[c] => RUNNING_QUEUE' = RUNNING_QUEUE ]_vars

\* a running thread has put a thread it created behind a waiting one, after
\* a tick found it in the middle of the creation
C29_Witness ==
    /\ Running # 0
    /\ creator[Running].pc = "pushed"
    /\ Len(RUNNING_QUEUE) >= 2
    /\ last.called
    /\ last.had_current
    /\ last.since[Running] > 0

\* thread n waits in the Ready Queue
Waiting(n) == \E i \in DOMAIN RUNNING_QUEUE : RUNNING_QUEUE[i].id = n

\* C30: no starvation.  While the timer keeps ticking every thread in the
\* Ready Queue becomes the current thread; a tick makes the thread at
\* position 0 current and moves every other waiting thread one position
\* forward, with the preempted thread behind them, and nothing but a tick
\* moves a waiting thread: the thread at position p is current after p + 1
\* ticks, and k ticks run each of k threads once
C30_NoStarvation ==
    /\ \A n \in ThreadIds : Waiting(n) ~> (Running = n)
    /\ [][timer_interrupt_handler =>
             \A i \in DOMAIN RUNNING_QUEUE :
                IF i = 1 THEN Running' = RUNNING_QUEUE[i].id
                ELSE /\ i - 1 \in DOMAIN RUNNING_QUEUE'
                     /\ RUNNING_QUEUE'[i - 1] = RUNNING_QUEUE[i]]_vars
    /\ [][(timer_interrupt_handler /\ CURRENT_THREAD # None) =>
             /\ Len(RUNNING_QUEUE') = Len(RUNNING_QUEUE)
             /\ RUNNING_QUEUE # << >> =>
                   RUNNING_QUEUE'[Len(RUNNING_QUEUE')].id = Running]_vars
    /\ [][\A i \in DOMAIN RUNNING_QUEUE :
             (i \in DOMAIN RUNNING_QUEUE' /\ RUNNING_QUEUE'[i] = RUNNING_QUEUE[i])
             \/ timer_interrupt_handler]_vars

\* the thread that waited at position 2 of three has become current, two
\* ticks after the first thread did
C30_Witness ==
    /\ Running = 3
    /\ QueueIds = << 1, 2 >>
    /\ last.called
    /\ last.since[3] = 2

\* C31: schedule_next returns 0 exactly while no thread has been put in the
\* Ready Queue yet; from the first thread on every call returns an address
\* and leaves the Current-Thread slot occupied, and a slot once occupied
\* stays occupied
C31_ZeroOnlyBeforeFirstThread ==
    /\ [][timer_interrupt_handler =>
             /\ last'.ret = 0 <=> created = {}
             /\ last'.ret = 0 <=> CURRENT_THREAD' = None]_vars
    /\ [][CURRENT_THREAD # None => CURRENT_THREAD' # None]_vars
    /\ [](CURRENT_THREAD # None => created # {})

\* the only thread there is was preempted with nothing else to run, and the
\* call returned its address
C31_Witness ==
    /\ last.called
    /\ last.had_current
    /\ last.queue_len = 0
    /\ last.ret # 0
    /\ created = {1}
    /\ CURRENT_THREAD # None

\* the thread's context lies within its own kernel stack
InOwnKernelStack(t) ==
    /\ t.kernel_stack <= t.context
    /\ t.context + INTERRUPT_CONTEXT_SIZE <= t.kernel_stack_end

\* C32, as stated: the context address of every thread in the Ready Queue
\* or the Current-Thread slot is its kernel-stack top -
\* INTERRUPT_CONTEXT_SIZE, within its own kernel stack
C32_ContextAtStackTopMinusSize ==
    \A t \in Held :
        /\ t.context = t.kernel_stack_end - INTERRUPT_CONTEXT_SIZE
        /\ InOwnKernelStack(t)

\* C32, amended: the context address of every thread in the Ready Queue or
\* the Current-Thread slot lies within the thread's own kernel stack; it is
\* the kernel-stack top - INTERRUPT_CONTEXT_SIZE until the thread is first
\* preempted, and from then on the kernel-stack top rounded down to 16
\* bytes - INTERRUPT_CONTEXT_SIZE, which is the same address only when the
\* top is 16-byte aligned
C32_ContextWithinOwnStack ==
    \A t \in Held :
        /\ InOwnKernelStack(t)
        /\ t.context \in { t.kernel_stack_end - INTERRUPT_CONTEXT_SIZE,
                           AlignDown16(t.kernel_stack_end) - INTERRUPT_CONTEXT_SIZE }
        /\ last.stamped[t.id] = 0 =>
              t.context = t.kernel_stack_end - INTERRUPT_CONTEXT_SIZE
        /\ last.stamped[t.id] # 0 =>
              t.context = AlignDown16(t.kernel_stack_end) - INTERRUPT_CONTEXT_SIZE

\* a thread whose stack top is not 16-byte aligned was preempted and waits
\* with its context below the address thread creation chose
C32_Witness ==
    \E i \in DOMAIN RUNNING_QUEUE :
        LET t == RUNNING_QUEUE[i]
        IN  /\ last.stamped[t.id] # 0
            /\ t.kernel_stack_end % 16 # 0
            /\ t.context = t.kernel_stack_end - 8 - INTERRUPT_CONTEXT_SIZE
            /\ InOwnKernelStack(t)

\* the pages the segments of an image cover
SegmentPages(bin) ==
    UNION { bin.segments[i].address.pg ..
              AddrAdd(AddrAdd(bin.segments[i].address, bin.segments[i].size), -1).pg :
            i \in DOMAIN bin.segments }

\* C33: for every image new_user_thread accepts, no page of a segment is a
\* page of the user stack region, and no page of the region was mapped
\* when the call began mapping the stack
C33_StackDisjointFromSegments ==
    (load.called /\ load.result.ok) =>
        /\ SegmentPages(load.bin) \cap StackPages = {}
        /\ load.mapper.mapped = << >> => load.stack_err # "PageAlreadyMapped"

\* C34: whenever new_user_thread returns an error, the Ready Queue and the
\* Current-Thread slot are as before and no thread was created, the page
\* mappings are as before and no frame was taken from the allocator
C34_ErrorLeavesNothing ==
    (load.called /\ ~load.result.ok) =>
        /\ NoCreation
        /\ next_id = load.next_id
        /\ created = load.created
        /\ mapper.mapped = load.mapper.mapped
        /\ mapper.tables = load.mapper.tables
        /\ frame_allocator.next = load.frame_allocator.next

\* C35: new_user_thread is total: whatever the buffer, the call returns
\* Ok(entry) or one of its errors and does not panic
C35_NeverPanics ==
    load.called =>
        /\ load.panicked = ""
        /\ \/ load.result.ok
           \/ load.result \in { NotElf, OutsideRange, AllocationFailed,
                                Err("Could not parse ELF") }

\* the address lies in a segment of the image
InSomeSegment(bin, a) ==
    \E i \in DOMAIN bin.segments :
        /\ AsU64(bin.segments[i].address) <= a
        /\ a < AsU64(bin.segments[i].address) + bin.segments[i].size

\* C36: the entry address a successful new_user_thread returns, and writes
\* as the instruction pointer of the thread it creates, lies in the
\* user-code window and in a segment of the image that was mapped
C36_EntryInMappedSegment ==
    (load.called /\ load.result.ok) =>
        /\ AsU64(USER_CODE_START) <= load.result.value
        /\ load.result.value \div 4096 < USER_CODE_END.pg
        /\ InSomeSegment(load.bin, load.result.value)
        /\ (load.result.value \div 4096) \in DOMAIN mapper.mapped

\* the keyboard task sleeps: it returned Pending and was not woken since
Asleep == kbd.pc = "pending" /\ ~kbd.woken

\* C37: no wake-up is lost.  When poll_next returns Pending the waker is
\* registered and the queue is empty; afterwards the waker stays registered
\* until the task is woken, so a task left pending and unwoken has an empty
\* queue and the next byte pushed wakes it; the bytes taken are the bytes
\* pushed, in their order, and none of them twice
C37_NoLostWakeup ==
    /\ [](SCANCODE_QUEUE # None =>
            /\ kbd.pc = "pending" => (kbd.waker \/ kbd.woken)
            /\ Asleep => (SCANCODE_QUEUE[1] = << >> /\ kbd.waker)
            /\ kbd.taken \o SCANCODE_QUEUE[1] = kbd.arrived)
    /\ [][(kbd.pc = "pop again" /\ kbd'.pc = "pending") =>
             kbd'.waker /\ SCANCODE_QUEUE'[1] = << >>]_vars
    /\ [][(Asleep /\ SCANCODE_QUEUE' # SCANCODE_QUEUE) =>
             (kbd'.woken /\ kbd'.wakes = kbd.wakes + 1)]_vars

\* a byte came after the fast path had found the queue empty and before the
\* waker was registered; the second look took it, and a later byte woke the
\* pending task
C37_Witness ==
    /\ kbd.pc = "pending"
    /\ kbd.woken
    /\ Len(kbd.taken) = 2
    /\ Len(SCANCODE_QUEUE[1]) = 1
    /\ kbd.wakes = 3

\* a lock that the handlers take is held by the code they interrupt: the
\* Ready Queue's by thread creation (process.rs:176-178, :213-215), the
\* active terminal's by activate_tty (tty.rs:17-19)
HeldOutsideHandlers == queue_lock # "free" \/ ACTIVE_TTY.locked

\* the last handler run is waiting for a lock
HandlerWaits == event.log # << >> /\ event.log[Len(event.log)] = "spin"

\* C38: a lock that interrupt and fault handlers take is held by other code
\* only while interrupts are disabled, so no handler waits for ever for a
\* lock of the code it interrupted
C38_LocksHeldWithInterruptsOff ==
    /\ (HeldOutsideHandlers /\ ~spinning) => ~InterruptsEnabled
    /\ ~HandlerWaits

\* the 4 KiB pages that intersect [start, start + size)
Intersecting(start, size) ==
    { p \in (start.pg - 1)..(start.pg + (size \div 4096) + 2) :
        /\ p * 4096 < AsU64(start) + size
        /\ AsU64(start) < (p + 1) * 4096 }

\* the pages the last call of allocate_pages_mapper mapped
NewlyMapped == DOMAIN mapper.mapped \ DOMAIN load.mapper.mapped

\* the frames the allocator handed out during the last call
FramesTaken ==
    LET frames == usable_frames(memory_regions)
    IN  { frames[i] : i \in { j \in DOMAIN frames :
                                /\ load.frame_allocator.next < j
                                /\ j <= frame_allocator.next } }

\* the frames that held pages before the last call
FramesBefore == { load.mapper.mapped[p].frame : p \in DOMAIN load.mapper.mapped }

\* C39: a call of allocate_pages_mapper with size > 0 that succeeds has
\* mapped exactly the pages that intersect [start, start + size), with the
\* flags given, each to a frame of its own that the allocator handed out
\* during the call and that held no page before: one data frame for each
\* page, besides the frames of new page tables.  A call that fails has
\* stopped at the first page that could not be mapped: the pages of the
\* range before that page are mapped and stay so, the others are not.
\* Either way the mappings there were before are as they were.
C39_MapsExactlyTheRange ==
    load.called =>
        LET range == Intersecting(load.start_addr, load.size)
            first == load.start_addr.pg
        IN  /\ \A p \in DOMAIN load.mapper.mapped :
                  /\ p \in DOMAIN mapper.mapped
                  /\ mapper.mapped[p] = load.mapper.mapped[p]
            /\ \A p \in NewlyMapped :
                  /\ mapper.mapped[p].flags = load.flags
                  /\ mapper.mapped[p].frame \in FramesTaken \ FramesBefore
                  /\ \A q \in NewlyMapped \ {p} :
                        mapper.mapped[q].frame # mapper.mapped[p].frame
            /\ load.err = "" =>
                  /\ NewlyMapped = range
                  /\ Cardinality(range)
                       = (frame_allocator.next - load.frame_allocator.next)
                         - Cardinality(mapper.tables \ load.mapper.tables)
            /\ load.err # "" =>
                  /\ load.err \in {"FrameAllocationFailed", "PageAlreadyMapped"}
                  /\ \E failed \in range :
                        /\ NewlyMapped = { p \in range : p < failed }
                        /\ load.err = "PageAlreadyMapped"
                              => failed \in DOMAIN load.mapper.mapped
                        /\ load.err = "FrameAllocationFailed"
                              => frame_allocator.next
                                   > Len(usable_frames(memory_regions))

\* a call that was to map three pages has failed at the third, which an
\* earlier call had mapped; the two pages before it are left mapped
C39_Witness ==
    /\ load.called
    /\ load.err = "PageAlreadyMapped"
    /\ Cardinality(Intersecting(load.start_addr, load.size)) = 3
    /\ Cardinality(NewlyMapped) = 2
    /\ load.mapper.mapped # << >>


====
